---- MODULE Spec2Model ----
(***************************************************************************)
(* Model of the file processor CLI's FileValidator                         *)
(* (src/src/utils/fileValidator.ts): the file-type detection heuristic     *)
(* detectFileType and the validation report validateFile, run against a    *)
(* file system that other processes may change between two system calls   *)
(* and whose close may fail (Spec); SpecRepeat compares repeated calls.     *)
(*                                                                         *)
(* Numbers: the scores 0, 0.3, 0.5, 0.7 and 1 are kept in tenths (0, 3, 5, *)
(* 7, 10); every sum the code can form from them is exact in IEEE doubles  *)
(* up to the comparisons the code makes, so ties and maxima agree.  A      *)
(* confidence is kept in thirtieths: confidence30 = 30 * confidence.       *)
(* Strings: paths and messages are TLA+ strings; file contents are byte    *)
(* sequences and content samples are sequences of code points.             *)
(*                                                                         *)
(* The module also models the ExcelProcessor (src/unnamed/part_001) with    *)
(* its calls interleaved at their awaits (SpecExcel), the actions of the    *)
(* commands convert-csv, convert-excel, convert-xml and process of          *)
(* src/src/cli/index.ts (SpecCli), CSVProcessor.getPreview (SpecCsv) and    *)
(* XmlProcessor.getElementsPaths (SpecXml).  Each specification moves its   *)
(* own variables and leaves the others as Init set them.                    *)
(***************************************************************************)
EXTENDS Integers, Sequences, FiniteSets, TLC

-----------------------------------------------------------------------------
(* Characters and strings *)

\* the ASCII characters 32..95 and 97..126 (96 cannot be written in a string)
PrintableLow == " !\"#$%&'()*+,-./0123456789:;<=>?@ABCDEFGHIJKLMNOPQRSTUVWXYZ[\\]^_"
PrintableHigh == "abcdefghijklmnopqrstuvwxyz{|}~"

Char(s, i) == SubSeq(s, i, i)

\* the code of an ASCII character (a one-character string)
Code(ch) ==
  IF ch = "\n" THEN 10
  ELSE IF ch = "\t" THEN 9
  ELSE IF ch = "\r" THEN 13
  ELSE IF \E i \in 1..Len(PrintableLow) : Char(PrintableLow, i) = ch
  THEN 31 + (CHOOSE i \in 1..Len(PrintableLow) : Char(PrintableLow, i) = ch)
  ELSE 96 + (CHOOSE i \in 1..Len(PrintableHigh) : Char(PrintableHigh, i) = ch)

\* the bytes of an ASCII string, as written to disk by fs.writeFileSync(.., 'utf8')
Bytes(s) == [i \in 1..Len(s) |-> Code(Char(s, i))]

Min(a, b) == IF a <= b THEN a ELSE b

Max3(a, b, c) ==
  IF a >= b /\ a >= c THEN a ELSE IF b >= c THEN b ELSE c

\* String.prototype.includes
includes(s, k) ==
  \E i \in 1..(Len(s) - Len(k) + 1) : SubSeq(s, i, i + Len(k) - 1) = k

\* String.prototype.startsWith
startsWith(s, k) == Len(s) >= Len(k) /\ SubSeq(s, 1, Len(k)) = k

UpperLetters == "ABCDEFGHIJKLMNOPQRSTUVWXYZ"
LowerLetters == "abcdefghijklmnopqrstuvwxyz"

LowerChar(ch) ==
  IF \E i \in 1..Len(UpperLetters) : Char(UpperLetters, i) = ch
  THEN Char(LowerLetters, CHOOSE i \in 1..Len(UpperLetters) : Char(UpperLetters, i) = ch)
  ELSE ch

UpperChar(ch) ==
  IF \E i \in 1..Len(LowerLetters) : Char(LowerLetters, i) = ch
  THEN Char(UpperLetters, CHOOSE i \in 1..Len(LowerLetters) : Char(LowerLetters, i) = ch)
  ELSE ch

RECURSIVE toLowerCase(_)
toLowerCase(s) ==
  IF s = "" THEN "" ELSE LowerChar(Char(s, 1)) \o toLowerCase(SubSeq(s, 2, Len(s)))

RECURSIVE toUpperCase(_)
toUpperCase(s) ==
  IF s = "" THEN "" ELSE UpperChar(Char(s, 1)) \o toUpperCase(SubSeq(s, 2, Len(s)))

\* the largest index of ch in s, 0 when there is none
LastIndexOf(s, ch) ==
  LET at == {i \in 1..Len(s) : Char(s, i) = ch}
  IN IF at = {} THEN 0 ELSE CHOOSE i \in at : \A j \in at : j <= i

\* path.basename (posix): the part after the last "/", trailing "/" dropped
RECURSIVE basename(_)
basename(p) ==
  IF Len(p) > 1 /\ Char(p, Len(p)) = "/" THEN basename(SubSeq(p, 1, Len(p) - 1))
  ELSE SubSeq(p, LastIndexOf(p, "/") + 1, Len(p))

\* path.extname (posix): from the last "." of the base name, "" when there is
\* none, when it is the first character of the base name, or for ".."
extname(p) ==
  LET b == basename(p)
      d == LastIndexOf(b, ".")
  IN IF d <= 1 \/ b = ".." THEN "" ELSE SubSeq(b, d, Len(b))

-----------------------------------------------------------------------------
(* Buffer.toString('utf8') and Buffer.from(.., 'utf8') *)

IsCont(b, i) == i <= Len(b) /\ b[i] >= 128 /\ b[i] <= 191

\* the second byte a lead byte of a 3- or 4-byte sequence accepts
SecondOk(lead, x) ==
  IF lead = 224 THEN x >= 160 /\ x <= 191
  ELSE IF lead = 237 THEN x >= 128 /\ x <= 159
  ELSE IF lead = 240 THEN x >= 144 /\ x <= 191
  ELSE IF lead = 244 THEN x >= 128 /\ x <= 143
  ELSE x >= 128 /\ x <= 191

\* The code points of the bytes b from index i on.  An ill-formed sequence
\* gives one U+FFFD (65533) per maximal ill-formed subpart, as Node's decoder
\* does.  A code point above U+FFFF stands for its surrogate pair.
RECURSIVE utf8Decode(_, _)
utf8Decode(b, i) ==
  IF i > Len(b) THEN <<>>
  ELSE LET c == b[i] IN
    IF c < 128 THEN <<c>> \o utf8Decode(b, i + 1)
    ELSE IF c >= 194 /\ c <= 223 THEN
      IF IsCont(b, i + 1)
      THEN <<(c - 192) * 64 + (b[i + 1] - 128)>> \o utf8Decode(b, i + 2)
      ELSE <<65533>> \o utf8Decode(b, i + 1)
    ELSE IF c >= 224 /\ c <= 239 THEN
      IF ~(i + 1 <= Len(b) /\ SecondOk(c, b[i + 1]))
      THEN <<65533>> \o utf8Decode(b, i + 1)
      ELSE IF ~IsCont(b, i + 2)
      THEN <<65533>> \o utf8Decode(b, i + 2)
      ELSE <<(c - 224) * 4096 + (b[i + 1] - 128) * 64 + (b[i + 2] - 128)>>
             \o utf8Decode(b, i + 3)
    ELSE IF c >= 240 /\ c <= 244 THEN
      IF ~(i + 1 <= Len(b) /\ SecondOk(c, b[i + 1]))
      THEN <<65533>> \o utf8Decode(b, i + 1)
      ELSE IF ~IsCont(b, i + 2)
      THEN <<65533>> \o utf8Decode(b, i + 2)
      ELSE IF ~IsCont(b, i + 3)
      THEN <<65533>> \o utf8Decode(b, i + 3)
      ELSE <<(c - 240) * 262144 + (b[i + 1] - 128) * 4096
               + (b[i + 2] - 128) * 64 + (b[i + 3] - 128)>>
             \o utf8Decode(b, i + 4)
    ELSE <<65533>> \o utf8Decode(b, i + 1)

\* buffer.toString('utf8'); bytes that are all ASCII decode to themselves
bufferToString(b) ==
  IF \A i \in 1..Len(b) : b[i] < 128 THEN b ELSE utf8Decode(b, 1)

utf8EncodeOne(cp) ==
  IF cp < 128 THEN <<cp>>
  ELSE IF cp < 2048 THEN <<192 + (cp \div 64), 128 + (cp % 64)>>
  ELSE IF cp < 65536
  THEN <<224 + (cp \div 4096), 128 + ((cp \div 64) % 64), 128 + (cp % 64)>>
  ELSE <<240 + (cp \div 262144), 128 + ((cp \div 4096) % 64),
         128 + ((cp \div 64) % 64), 128 + (cp % 64)>>

\* Buffer.from(content, 'utf8')
RECURSIVE bufferFrom(_)
bufferFrom(content) ==
  IF \A i \in 1..Len(content) : content[i] < 128 THEN content
  ELSE utf8EncodeOne(Head(content)) \o bufferFrom(Tail(content))

-----------------------------------------------------------------------------
(* String operations on a content sample (a sequence of code points) *)

\* the white space String.prototype.trim removes
IsWhiteSpace(cp) ==
  \/ cp \in {9, 10, 11, 12, 13, 32, 160, 5760, 8232, 8233, 8239, 8287, 12288, 65279}
  \/ (cp >= 8192 /\ cp <= 8202)

RECURSIVE trimStart(_)
trimStart(s) ==
  IF s # <<>> /\ IsWhiteSpace(Head(s)) THEN trimStart(Tail(s)) ELSE s

RECURSIVE trimEnd(_)
trimEnd(s) ==
  IF s # <<>> /\ IsWhiteSpace(s[Len(s)]) THEN trimEnd(SubSeq(s, 1, Len(s) - 1)) ELSE s

\* String.prototype.trim
trim(s) == trimEnd(trimStart(s))

\* the first index >= i of code point cp in s, 0 when there is none
IndexFrom(s, cp, i) ==
  LET at == {j \in i..Len(s) : s[j] = cp}
  IN IF at = {} THEN 0 ELSE CHOOSE j \in at : \A k \in at : j <= k

\* the number of matches of /<[^>]+>/g in s from index i on: a "<", then one
\* or more characters other than ">", then ">"
RECURSIVE countTags(_, _)
countTags(s, i) ==
  LET o == IndexFrom(s, 60, i) IN
    IF o = 0 THEN 0
    ELSE LET j == IndexFrom(s, 62, o + 1) IN
      IF j >= o + 2
      THEN 1 + countTags(s, j + 1)
      ELSE countTags(s, o + 1)

\* the number of matches of /<\/[^>]+>/g in s from index i on
RECURSIVE countClosingTags(_, _)
countClosingTags(s, i) ==
  LET o == IndexFrom(s, 60, i) IN
    IF o = 0 THEN 0
    ELSE LET j == IndexFrom(s, 62, o + 2) IN
      IF o + 1 <= Len(s) /\ s[o + 1] = 47 /\ j >= o + 3
      THEN 1 + countClosingTags(s, j + 1)
      ELSE countClosingTags(s, o + 1)

\* content.split('\n'): the pieces between the line feeds, at least one piece
RECURSIVE splitLines(_)
splitLines(s) ==
  LET j == IndexFrom(s, 10, 1) IN
    IF j = 0 THEN <<s>>
    ELSE <<SubSeq(s, 1, j - 1)>> \o splitLines(SubSeq(s, j + 1, Len(s)))

\* Array.prototype.slice(0, n)
sliceFirst(a, n) == SubSeq(a, 1, Min(n, Len(a)))

-----------------------------------------------------------------------------
(* FileValidator: constants and the three scorers.  A score is in tenths. *)

NULL == "null"

CSV == "csv"
EXCEL == "excel"
XML == "xml"
FileType == {CSV, EXCEL, XML}

CSV_EXTENSIONS == <<".csv", ".tsv", ".txt">>
EXCEL_EXTENSIONS == <<".xlsx", ".xls", ".xlsm", ".xlsb">>
XML_EXTENSIONS == <<".xml", ".xsd", ".xsl", ".xslt", ".rss", ".atom", ".svg">>

\* ',', ';', '\t', '|'
CSV_SEPARATORS == <<44, 59, 9, 124>>

MAX_SAMPLE_SIZE == 8192

\* Array.prototype.includes
arrayIncludes(a, x) == \E i \in 1..Len(a) : a[i] = x

NoScore == [csv |-> 0, excel |-> 0, xml |-> 0]

scoreByExtension(extension) ==
  IF arrayIncludes(CSV_EXTENSIONS, extension) THEN [NoScore EXCEPT !.csv = 10]
  ELSE IF arrayIncludes(EXCEL_EXTENSIONS, extension) THEN [NoScore EXCEPT !.excel = 10]
  ELSE IF arrayIncludes(XML_EXTENSIONS, extension) THEN [NoScore EXCEPT !.xml = 10]
  ELSE NoScore

\* the XML part of scoreByContent
xmlContentScore(content) ==
  LET trimmedContent == trim(content)
      xmlTagCount == countTags(content, 1)
      xmlClosingTagCount == countClosingTags(content, 1)
  IN IF startsWith(trimmedContent, Bytes("<?xml")) \/ startsWith(trimmedContent, Bytes("<"))
     THEN IF xmlTagCount > 0 /\ xmlClosingTagCount > 0 THEN 10
          ELSE IF xmlTagCount > 0 THEN 7
          ELSE 0
     ELSE 0

\* the Excel part of scoreByContent: the signatures are looked for in the
\* re-encoded sample
excelContentScore(content) ==
  LET bytes == bufferFrom(content) IN
    IF Len(bytes) >= 8
    THEN IF bytes[1] = 80 /\ bytes[2] = 75 THEN 10
         ELSE IF bytes[1] = 208 /\ bytes[2] = 207 /\ bytes[3] = 17 /\ bytes[4] = 224 THEN 10
         ELSE 0
    ELSE 0

\* the lines among `lines` that are not blank and hold a separator
csvIndicatorCount(lines) ==
  Cardinality({i \in 1..Len(lines) :
     /\ Len(trim(lines[i])) # 0
     /\ \E k \in 1..Len(CSV_SEPARATORS) :
          \E j \in 1..Len(lines[i]) : lines[i][j] = CSV_SEPARATORS[k]})

\* the CSV part of scoreByContent
csvContentScore(content) ==
  LET lines == sliceFirst(splitLines(content), 10)
      csvIndicators == csvIndicatorCount(lines)
  IN IF 2 * csvIndicators >= Len(lines) THEN 10
     ELSE IF csvIndicators > 0 THEN 5
     ELSE 0

\* scoreByContent with the CSV check made whatever the XML and Excel checks gave
scoreByContentCsvAlways(content) ==
  IF Len(content) = 0 THEN NoScore
  ELSE [csv |-> csvContentScore(content),
        excel |-> excelContentScore(content),
        xml |-> xmlContentScore(content)]

scoreByContent(content) ==
  IF Len(content) = 0 THEN NoScore
  ELSE LET xml == xmlContentScore(content)
           excel == excelContentScore(content)
           csv == IF xml = 0 /\ excel = 0 THEN csvContentScore(content) ELSE 0
       IN [csv |-> csv, excel |-> excel, xml |-> xml]

\* scoreByFilename applied to the name without its extension
scoreByFilenameOfStem(filename) ==
  LET d == LastIndexOf(filename, ".")
      stem == IF d <= 1 THEN filename ELSE SubSeq(filename, 1, d - 1)
  IN [csv |-> IF includes(stem, "csv") \/ includes(stem, "data")
                 \/ includes(stem, "export") THEN 3 ELSE 0,
      excel |-> IF includes(stem, "xlsx") \/ includes(stem, "xls")
                   \/ includes(stem, "spreadsheet") \/ includes(stem, "workbook")
                THEN 3 ELSE 0,
      xml |-> IF includes(stem, "xml") \/ includes(stem, "config")
                 \/ includes(stem, "feed") \/ includes(stem, "rss") THEN 3 ELSE 0]

\* scoreByFilename with a keyword worth 1 instead of 0.3
scoreByFilenameOne(filename) ==
  [csv |-> IF includes(filename, "csv") \/ includes(filename, "data")
              \/ includes(filename, "export") THEN 10 ELSE 0,
   excel |-> IF includes(filename, "xlsx") \/ includes(filename, "xls")
                \/ includes(filename, "spreadsheet") \/ includes(filename, "workbook")
             THEN 10 ELSE 0,
   xml |-> IF includes(filename, "xml") \/ includes(filename, "config")
              \/ includes(filename, "feed") \/ includes(filename, "rss") THEN 10 ELSE 0]

scoreByFilename(filename) ==
  [csv |-> IF includes(filename, "csv") \/ includes(filename, "data")
              \/ includes(filename, "export") THEN 3 ELSE 0,
   excel |-> IF includes(filename, "xlsx") \/ includes(filename, "xls")
                \/ includes(filename, "spreadsheet") \/ includes(filename, "workbook")
             THEN 3 ELSE 0,
   xml |-> IF includes(filename, "xml") \/ includes(filename, "config")
              \/ includes(filename, "feed") \/ includes(filename, "rss") THEN 3 ELSE 0]

-----------------------------------------------------------------------------
(* detectFileType: combining the scores *)

\* the extension and the file name detectFileType derives from the path
extensionOf(filePath) == toLowerCase(extname(filePath))
fileNameOf(filePath) == toLowerCase(basename(filePath))

\* csvScore, excelScore and xmlScore
combinedScore(filePath, contentSample) ==
  LET e == scoreByExtension(extensionOf(filePath))
      c == scoreByContent(contentSample)
      f == scoreByFilename(fileNameOf(filePath))
  IN [csv |-> e.csv + c.csv + f.csv,
      excel |-> e.excel + c.excel + f.excel,
      xml |-> e.xml + c.xml + f.xml]

maxScoreOf(t) == Max3(t.csv, t.excel, t.xml)

\* the chain testing XML first, then EXCEL, then CSV
winnerOfXmlFirst(t) ==
  IF t.xml = maxScoreOf(t) THEN XML
  ELSE IF t.excel = maxScoreOf(t) THEN EXCEL
  ELSE CSV

\* the branch the if / else-if chain on maxScore takes
winnerOf(t) ==
  IF t.csv = maxScoreOf(t) THEN CSV
  ELSE IF t.excel = maxScoreOf(t) THEN EXCEL
  ELSE XML

\* Math.min(score / 2, 1), in thirtieths
confidenceOfHalf(score) == Min((3 * score) \div 2, 30)

\* Math.min(score / 3, 1), in thirtieths
confidenceOf(score) == Min(score, 30)

indicatorsFound(type) ==
  IF type = CSV THEN "CSV indicators found"
  ELSE IF type = EXCEL THEN "Excel indicators found"
  ELSE "XML indicators found"

\* the reasons for the detected type with the content reason pushed first
specificReasonsContentFirst(filePath, contentSample, type) ==
  LET e == scoreByExtension(extensionOf(filePath))
      c == scoreByContent(contentSample)
      f == scoreByFilename(fileNameOf(filePath))
  IN (IF c[type] > 0
      THEN <<"File content matches " \o toUpperCase(type) \o " format">> ELSE <<>>)
     \o (IF e[type] > 0 THEN <<"File extension matches " \o toUpperCase(type)>> ELSE <<>>)
     \o (IF f[type] > 0
         THEN <<"Filename suggests " \o toUpperCase(type) \o " format">> ELSE <<>>)

\* the reasons added for the detected type, in the order they are pushed
specificReasons(filePath, contentSample, type) ==
  LET e == scoreByExtension(extensionOf(filePath))
      c == scoreByContent(contentSample)
      f == scoreByFilename(fileNameOf(filePath))
  IN (IF e[type] > 0 THEN <<"File extension matches " \o toUpperCase(type)>> ELSE <<>>)
     \o (IF c[type] > 0
         THEN <<"File content matches " \o toUpperCase(type) \o " format">> ELSE <<>>)
     \o (IF f[type] > 0
         THEN <<"Filename suggests " \o toUpperCase(type) \o " format">> ELSE <<>>)

\* scoreResult without the test maxScore > 0: a maximum of 0 is matched by
\* the first branch of the chain
scoreResultNoZeroCheck(filePath, contentSample, reasons) ==
  LET t == combinedScore(filePath, contentSample)
  IN [detectedType |-> winnerOf(t),
      confidence30 |-> confidenceOf(t[winnerOf(t)]),
      reasons |-> reasons \o <<indicatorsFound(winnerOf(t))>>
                    \o specificReasons(filePath, contentSample, winnerOf(t))]

\* the result of the scoring part of detectFileType, given the reasons
\* already in the result
scoreResult(filePath, contentSample, reasons) ==
  LET t == combinedScore(filePath, contentSample)
      maxScore == maxScoreOf(t)
  IN IF maxScore > 0
     THEN [detectedType |-> winnerOf(t),
           confidence30 |-> confidenceOf(t[winnerOf(t)]),
           reasons |-> reasons \o <<indicatorsFound(winnerOf(t))>>
                         \o specificReasons(filePath, contentSample, winnerOf(t))]
     ELSE [detectedType |-> NULL, confidence30 |-> 0, reasons |-> reasons]

-----------------------------------------------------------------------------
(* Formatting *)

Digit(d) == Char("0123456789", d + 1)

RECURSIVE natToString(_)
natToString(n) ==
  IF n < 10 THEN Digit(n) ELSE natToString(n \div 10) \o Digit(n % 10)

\* (confidence * 100).toFixed(1) for a confidence given in thirtieths
percentFixed1(confidence30) ==
  LET tenths == (200 * confidence30 + 3) \div 6
  IN natToString(tenths \div 10) \o "." \o Digit(tenths % 10)

\* Array.prototype.join(', ')
RECURSIVE join(_)
join(a) ==
  IF a = <<>> THEN ""
  ELSE IF Len(a) = 1 THEN a[1]
  ELSE a[1] \o ", " \o join(Tail(a))

-----------------------------------------------------------------------------
(* The file system: what one path names on disk *)

Absent == [kind |-> "absent", data |-> <<>>, size |-> 0, readable |-> FALSE]

\* a regular file holding the bytes `data`
RegularFile(data, readable) ==
  [kind |-> "file", data |-> data, size |-> Len(data), readable |-> readable]

\* 100 * 1024 * 1024, the size above which validateFile warns
LARGE_FILE_BYTES == 100 * 1024 * 1024

\* the first MAX_SAMPLE_SIZE bytes of a large CSV file: lines of 1023
\* characters, a comma after every seven letters
LargeFileHead ==
  [i \in 1..MAX_SAMPLE_SIZE |->
     IF i % 1024 = 0 THEN 10 ELSE IF i % 8 = 0 THEN 44 ELSE 120]

\* a regular file of `size` bytes, larger than a content sample; `data` is
\* its head, the only part of it that is ever read
LargeFile(size) ==
  [kind |-> "file", data |-> LargeFileHead, size |-> size, readable |-> TRUE]

\* a directory: it exists, has a size and can be opened, but not read
Directory == [kind |-> "dir", data |-> <<>>, size |-> 4096, readable |-> TRUE]

\* the paths the calls are made on
Paths ==
  { "report.csv", "REPORT.CSV", "notes.txt", "table.tsv", "data/page.txt",
    "xml-content.txt", "book.xlsx", "sheet.xlsb", "test.xml", "style.xsl",
    "ambiguous.unknown", "readme", "export_xls_feed.bin", "workbook_config",
    ".csv" }

\* the contents a file may have
Contents ==
  { Bytes("name,age\nJohn,30\nJane,25"),
    Bytes("some,data\nother,info"),
    Bytes("<?xml version=\"1.0\"?><root><item>test</item></root>"),
    Bytes("  \n<?xml version=\"1.0\"?>\n<a>1</a>"),
    Bytes("<br/>"),
    Bytes("<r>a,b</r>"),
    Bytes("PK") \o <<3, 4, 20, 0, 6, 0, 8, 0>>,
    <<208, 207, 17, 224, 161, 177, 26, 225>>,
    Bytes("a;b\n\n\n"),
    Bytes("plain text"),
    <<>> }

\* the states a path may be in when a call starts
FileStates ==
  {Absent, Directory}
    \cup {RegularFile(d, TRUE) : d \in Contents}
    \cup {RegularFile(Bytes("some,data\nother,info"), FALSE)}

\* the large files validateFile is called on: one of exactly 100 MB and one
\* a byte larger, under a CSV name and under a name that says nothing
LargeFileStates == {LargeFile(LARGE_FILE_BYTES), LargeFile(LARGE_FILE_BYTES + 1)}
LargeFilePaths == {"report.csv", "ambiguous.unknown"}

\* the value of fd while no file is open
Closed == [kind |-> "closed", data |-> <<>>, size |-> 0, readable |-> FALSE]

fsExistsSync(f) == f.kind # "absent"

-----------------------------------------------------------------------------
(* State *)

VARIABLES
  op,             \* the FileValidator method in flight or last called, "idle" at first
  filePath,       \* its argument
  file,           \* what filePath names on disk now
  file0,          \* what it named when the call started
  touched,        \* the call was disturbed: the file was changed or closing it failed
  pc,             \* the next step of the call, "done" once it has ended, "idle" between calls
  outcome,        \* "running", "returned" or "raised"
  fileSize,       \* detectFileType: fs.statSync(filePath).size
  fd,             \* detectFileType: the open file, Closed when none is open
  pending,        \* the message of an error on its way through the finally block
  contentSample,  \* detectFileType: the content sample
  detection,      \* detectFileType: its result object
  result,         \* validateFile: its result object
  failed,         \* the steps of this call whose system call has failed, in order
  lastDetection   \* an earlier detectFileType call that ran undisturbed, as a caller kept it

\* the state of the FileValidator calls
validatorVars ==
  <<op, filePath, file, file0, touched, pc, outcome, fileSize, fd, pending,
    contentSample, detection, result, failed, lastDetection>>

VARIABLES
  options,        \* ExcelProcessor: this.options of the one processor
  options0,       \* what this.options was when its first call started
  tasks,          \* ExcelProcessor: its processSheet and getPreview calls, in order of start
  microtasks      \* the calls waiting at their await, in the order they will resume

\* the state of the ExcelProcessor
excelVars == <<options, options0, tasks, microtasks>>

VARIABLES
  command,        \* CLI: the command whose action runs, "none" before
  argv,           \* CLI: its argument and options, and what the input path names
  processor,      \* CLI: the class of the processor the action has made, "none" before
  sheetAt,        \* CLI: the sheet getAllSheets is at, by its place in the workbook
  cliPc,          \* CLI: the await the action is at, "done" once it has ended
  events          \* CLI: what the action has done so far, in order

\* the state of the command line program
cliVars == <<command, argv, processor, sheetAt, cliPc, events>>

VARIABLES
  csvCall,        \* CSVProcessor: the getPreview call in flight or last made
  csvSettled      \* CSVProcessor: what the promise of that call settled to

\* the state of the CSVProcessor call
csvVars == <<csvCall, csvSettled>>

VARIABLES
  xmlCall,        \* XmlProcessor: the call in flight or last made
  xmlSettled      \* XmlProcessor: what the promise of that call settled to

\* the state of the XmlProcessor call
xmlVars == <<xmlCall, xmlSettled>>

\* the state of everything but the FileValidator calls
processorVars == <<excelVars, cliVars, csvVars, xmlVars>>

vars == <<validatorVars, processorVars>>

\* the value of a property that is absent or undefined
UNDEFINED == "undefined"

\* this.options after new ExcelProcessor(): encoding and range play no part
DefaultExcelOptions == [sheetName |-> UNDEFINED, header |-> UNDEFINED, sheetIndex |-> 0]

\* no detectFileType call has been made in this call yet
NoDetection == [detectedType |-> NULL, confidence30 |-> 0, reasons |-> <<>>]

\* a result object whose reasons list is shared by all calls and never reset
SharedDetectionResult ==
  [detectedType |-> NULL, confidence30 |-> 0,
   reasons |-> lastDetection.detection.reasons]

\* const result: FileTypeDetectionResult = {detectedType: null, confidence: 0, reasons: []}
NewDetectionResult == [detectedType |-> NULL, confidence30 |-> 0, reasons |-> <<>>]

\* const result: FileValidationResult = {isValid: true, fileType: null, ...}
NewValidationResult(path) ==
  [isValid |-> TRUE, fileType |-> NULL, errors |-> <<>>, warnings |-> <<>>,
   fileInfo |-> [path |-> path, size |-> 0, extension |-> ""]]

\* the methods that start with a call of validateFile
ValidatingMethods == {"validateFile", "getProcessorForFile", "isFileTypeSupported"}

\* no call has been made since the one a caller has kept
NoneBetween == [validating |-> FALSE, elsewhere |-> FALSE, disturbed |-> FALSE]

\* no caller has kept the result of a detectFileType call
NothingRemembered ==
  [known |-> FALSE, filePath |-> "", file |-> Absent, detection |-> NoDetection,
   between |-> NoneBetween]

\* no FileValidator call has been made
ValidatorInit ==
  /\ op = "idle"
  /\ filePath = ""
  /\ file = Absent
  /\ file0 = Absent
  /\ touched = FALSE
  /\ pc = "idle"
  /\ outcome = "returned"
  /\ fileSize = 0
  /\ fd = Closed
  /\ pending = NULL
  /\ contentSample = <<>>
  /\ detection = NoDetection
  /\ result = NewValidationResult("")
  /\ failed = <<>>
  /\ lastDetection = NothingRemembered

\* new ExcelProcessor(), no call made
ExcelInit ==
  /\ options = DefaultExcelOptions
  /\ options0 = DefaultExcelOptions
  /\ tasks = <<>>
  /\ microtasks = <<>>

\* what the input path names for the library that reads workbooks, when it
\* names nothing
NoWorkbook == [kind |-> "absent", SheetNames |-> <<>>]

\* no command has been given
NoArgv ==
  [path |-> "", file |-> Absent, workbook |-> NoWorkbook, parses |-> FALSE,
   sheet |-> UNDEFINED, allSheets |-> FALSE, output |-> UNDEFINED]

CliInit ==
  /\ command = "none"
  /\ argv = NoArgv
  /\ processor = "none"
  /\ sheetAt = 0
  /\ cliPc = "idle"
  /\ events = <<>>

NoCsvCall == [pc |-> "idle", filePath |-> "", file |-> Absent, rows |-> 0]
Pending == [state |-> "pending"]

CsvInit ==
  /\ csvCall = NoCsvCall
  /\ csvSettled = Pending

NoXmlFile == [kind |-> "absent"]
NoXmlCall == [pc |-> "idle", method |-> "none", filePath |-> "", file |-> NoXmlFile]

XmlInit ==
  /\ xmlCall = NoXmlCall
  /\ xmlSettled = Pending

Init == ValidatorInit /\ ExcelInit /\ CliInit /\ CsvInit /\ XmlInit

-----------------------------------------------------------------------------
(* Calls *)

\* a caller invokes FileValidator.detectFileType(p); p names f on disk
CallDetectFileType(p, f) ==
  /\ pc = "idle"
  /\ UNCHANGED lastDetection
  /\ op' = "detectFileType"
  /\ filePath' = p
  /\ file' = f
  /\ file0' = f
  /\ touched' = FALSE
  /\ pc' = "d_exists"
  /\ outcome' = "running"
  /\ fileSize' = 0
  /\ fd' = Closed
  /\ pending' = NULL
  /\ contentSample' = <<>>
  /\ detection' = NewDetectionResult
  /\ result' = NewValidationResult("")
  /\ failed' = <<>>
  /\ UNCHANGED processorVars

\* a caller invokes FileValidator.validateFile(p); p names f on disk
CallValidateFile(p, f) ==
  /\ pc = "idle"
  /\ UNCHANGED lastDetection
  /\ op' = "validateFile"
  /\ filePath' = p
  /\ file' = f
  /\ file0' = f
  /\ touched' = FALSE
  /\ pc' = "v_exists"
  /\ outcome' = "running"
  /\ fileSize' = 0
  /\ fd' = Closed
  /\ pending' = NULL
  /\ contentSample' = <<>>
  /\ detection' = NoDetection
  /\ result' = NewValidationResult(p)
  /\ failed' = <<>>
  /\ UNCHANGED processorVars

\* a caller invokes FileValidator.getProcessorForFile(p), which starts with
\* this.validateFile(p); p names f on disk
CallGetProcessorForFile(p, f) ==
  /\ pc = "idle"
  /\ UNCHANGED lastDetection
  /\ op' = "getProcessorForFile"
  /\ filePath' = p
  /\ file' = f
  /\ file0' = f
  /\ touched' = FALSE
  /\ pc' = "v_exists"
  /\ outcome' = "running"
  /\ fileSize' = 0
  /\ fd' = Closed
  /\ pending' = NULL
  /\ contentSample' = <<>>
  /\ detection' = NoDetection
  /\ result' = NewValidationResult(p)
  /\ failed' = <<>>
  /\ UNCHANGED processorVars

\* a caller invokes FileValidator.isFileTypeSupported(p), which starts with
\* this.validateFile(p); p names f on disk
CallIsFileTypeSupported(p, f) ==
  /\ pc = "idle"
  /\ UNCHANGED lastDetection
  /\ op' = "isFileTypeSupported"
  /\ filePath' = p
  /\ file' = f
  /\ file0' = f
  /\ touched' = FALSE
  /\ pc' = "v_exists"
  /\ outcome' = "running"
  /\ fileSize' = 0
  /\ fd' = Closed
  /\ pending' = NULL
  /\ contentSample' = <<>>
  /\ detection' = NoDetection
  /\ result' = NewValidationResult(p)
  /\ failed' = <<>>
  /\ UNCHANGED processorVars

\* Control is back in the caller and the locals of the call are gone.  The
\* caller keeps the result of an undisturbed detectFileType call (`keeps`),
\* to compare a later call on the same path and file with it, or goes on
\* with the result it has kept before: every other call, of any method, on
\* any path and file, disturbed or not, is then noted in `between`.
Return(keeps) ==
  /\ pc = "done"
  /\ keeps => op = "detectFileType" /\ outcome = "returned" /\ ~touched
  /\ lastDetection' =
       IF keeps
       THEN [known |-> TRUE, filePath |-> filePath, file |-> file0,
             detection |-> detection, between |-> NoneBetween]
       ELSE IF lastDetection.known
       THEN [lastDetection EXCEPT
               !.between.validating = @ \/ op \in ValidatingMethods,
               !.between.elsewhere =
                  @ \/ filePath # lastDetection.filePath \/ file0 # lastDetection.file,
               !.between.disturbed = @ \/ touched]
       ELSE lastDetection
  /\ op' = "idle"
  /\ filePath' = ""
  /\ file' = Absent
  /\ file0' = Absent
  /\ touched' = FALSE
  /\ pc' = "idle"
  /\ outcome' = "returned"
  /\ fileSize' = 0
  /\ fd' = Closed
  /\ pending' = NULL
  /\ contentSample' = <<>>
  /\ detection' = NoDetection
  /\ result' = NewValidationResult("")
  /\ failed' = <<>>
  /\ UNCHANGED processorVars

-----------------------------------------------------------------------------
(* Other processes, between two system calls of a call in flight *)

EnvUnlink ==
  /\ pc \notin {"idle", "done"}
  /\ file.kind # "absent"
  /\ file' = Absent
  /\ touched' = TRUE
  /\ UNCHANGED <<op, filePath, file0, pc, outcome, fileSize, fd, pending,
                 contentSample, detection, result, failed, lastDetection>>
  /\ UNCHANGED processorVars

EnvChmod ==
  /\ pc \notin {"idle", "done"}
  /\ file.kind = "file"
  /\ file' = [file EXCEPT !.readable = ~file.readable]
  /\ touched' = TRUE
  /\ UNCHANGED <<op, filePath, file0, pc, outcome, fileSize, fd, pending,
                 contentSample, detection, result, failed, lastDetection>>
  /\ UNCHANGED processorVars

-----------------------------------------------------------------------------
(* Exceptions *)

\* catchOf with fs.statSync of detectFileType outside every try block
catchOfStatUncaught(step) ==
  IF step \in {"d_open", "d_read", "d_close"} THEN "detect_inner"
  ELSE IF step \in {"d_exists", "d_score"} THEN "detect_outer"
  ELSE IF step \in {"v_exists", "v_stat", "v_detect", "v_finish"} THEN "validate"
  ELSE "none"

\* catchOf with fs.openSync before the inner try block
catchOfOpenOuter(step) ==
  IF step \in {"d_read", "d_close"} THEN "detect_inner"
  ELSE IF step \in {"d_exists", "d_stat", "d_open", "d_score"} THEN "detect_outer"
  ELSE IF step \in {"v_exists", "v_stat", "v_detect", "v_finish"} THEN "validate"
  ELSE "none"

\* The try block a step is in: the catch clause that takes an error thrown
\* by it, "none" if it is in no try block of its method.  fs.openSync,
\* fs.readSync and the fs.closeSync of the finally block are in the inner try
\* of detectFileType, fs.existsSync, fs.statSync and the scoring in its outer
\* try alone.
catchOf(step) ==
  IF step \in {"d_open", "d_read", "d_close"} THEN "detect_inner"
  ELSE IF step \in {"d_exists", "d_stat", "d_score"} THEN "detect_outer"
  ELSE IF step \in {"v_exists", "v_stat", "v_detect", "v_finish"} THEN "validate"
  ELSE "none"

\* the step after detectFileType has returned
afterDetect == IF op \in ValidatingMethods THEN "v_finish" ELSE "done"
outcomeAfterDetect == IF op \in ValidatingMethods THEN "running" ELSE "returned"

\* a catch clause that records the error and leaves isValid as it is
ValidateCatchKeepsValid(msg) ==
  /\ result' = [result EXCEPT !.errors = Append(@, "Validation error: " \o msg)]
  /\ pc' = "done"
  /\ outcome' = "returned"
  /\ UNCHANGED detection

\* catch (error) of validateFile
ValidateCatch(msg) ==
  /\ result' = [result EXCEPT !.errors = Append(@, "Validation error: " \o msg),
                              !.isValid = FALSE]
  /\ pc' = "done"
  /\ outcome' = "returned"
  /\ UNCHANGED detection

\* An error leaves detectFileType: inside validateFile the call is in its
\* try block; a direct caller gets the exception.
DetectRaises(msg) ==
  IF op \in ValidatingMethods /\ catchOf("v_detect") = "validate"
  THEN ValidateCatch(msg)
  ELSE /\ pc' = "done"
       /\ outcome' = "raised"
       /\ UNCHANGED <<detection, result>>

\* The step `step` throws an error with message msg: control goes to the
\* catch clause of the innermost try block around the step.
Throw(step, msg) ==
  IF catchOf(step) = "detect_inner"
  THEN /\ detection' = [detection EXCEPT
                          !.reasons = Append(@, "Content analysis failed: " \o msg)]
       /\ pc' = "d_score"
       /\ UNCHANGED <<outcome, result>>
  ELSE IF catchOf(step) = "detect_outer"
  THEN /\ detection' = [detection EXCEPT
                          !.reasons = Append(@, "Detection error: " \o msg)]
       /\ pc' = afterDetect
       /\ outcome' = outcomeAfterDetect
       /\ UNCHANGED result
  ELSE IF catchOf(step) = "validate"
  THEN ValidateCatch(msg)
  ELSE IF step \in {"d_exists", "d_stat", "d_open", "d_read", "d_close", "d_score"}
  THEN DetectRaises(msg)
  ELSE /\ pc' = "done"
       /\ outcome' = "raised"
       /\ UNCHANGED <<detection, result>>

\* the messages of the errors of fs
ENOENT(syscall, path) ==
  "ENOENT: no such file or directory, " \o syscall \o " '" \o path \o "'"
EACCES(syscall, path) ==
  "EACCES: permission denied, " \o syscall \o " '" \o path \o "'"
EISDIR(syscall) == "EISDIR: illegal operation on a directory, " \o syscall
EIO(syscall) == "EIO: i/o error, " \o syscall

-----------------------------------------------------------------------------
(* detectFileType, step by step *)

\* if (fs.existsSync(filePath))
DetectExists ==
  /\ pc = "d_exists"
  /\ pc' = IF fsExistsSync(file) THEN "d_stat" ELSE "d_score"
  /\ UNCHANGED <<op, filePath, file, file0, touched, outcome, fileSize, fd, pending,
                 contentSample, detection, result, failed, lastDetection>>
  /\ UNCHANGED processorVars

\* const fileSize = fs.statSync(filePath).size
DetectStat ==
  /\ pc = "d_stat"
  /\ IF file.kind = "absent"
     THEN /\ Throw("d_stat", ENOENT("stat", filePath))
          /\ failed' = Append(failed, "d_stat")
          /\ UNCHANGED fileSize
     ELSE /\ fileSize' = file.size
          /\ pc' = "d_open"
          /\ UNCHANGED <<outcome, detection, result, failed>>
  /\ UNCHANGED <<op, filePath, file, file0, touched, fd, pending, contentSample,
                 lastDetection>>
  /\ UNCHANGED processorVars

\* const sampleSize = Math.min(this.MAX_SAMPLE_SIZE, fileSize)
sampleSizeOf(size) == Min(MAX_SAMPLE_SIZE, size)

\* const fd = fs.openSync(filePath, 'r')
DetectOpen ==
  /\ pc = "d_open"
  /\ IF file.kind = "absent"
     THEN /\ Throw("d_open", ENOENT("open", filePath))
          /\ failed' = Append(failed, "d_open")
          /\ UNCHANGED fd
     ELSE IF ~file.readable
     THEN /\ Throw("d_open", EACCES("open", filePath))
          /\ failed' = Append(failed, "d_open")
          /\ UNCHANGED fd
     ELSE /\ fd' = file
          /\ pc' = "d_read"
          /\ UNCHANGED <<outcome, detection, result, failed>>
  /\ UNCHANGED <<op, filePath, file, file0, touched, fileSize, pending, contentSample,
                 lastDetection>>
  /\ UNCHANGED processorVars

\* the buffer of n zero bytes after fs.readSync(fd, buffer, 0, n, 0) on file f
readSync(f, n) ==
  [i \in 1..n |-> IF i <= Min(n, f.size) THEN f.data[i] ELSE 0]

\* fs.readSync(fd, buffer, 0, sampleSize, 0); contentSample = buffer.toString('utf8')
DetectRead ==
  /\ pc = "d_read"
  /\ IF fd.kind = "dir"
     THEN /\ pending' = EISDIR("read")
          /\ failed' = Append(failed, "d_read")
          /\ UNCHANGED contentSample
     ELSE /\ contentSample' = bufferToString(readSync(fd, sampleSizeOf(fileSize)))
          /\ UNCHANGED <<pending, failed>>
  /\ pc' = "d_close"
  /\ UNCHANGED <<op, filePath, file, file0, touched, outcome, fileSize, fd, detection,
                 result, lastDetection>>
  /\ UNCHANGED processorVars

\* fs.closeSync(fd) after the read and not in a finally block: a read that
\* throws goes to the catch clause with the file still open
DetectCloseAfterRead ==
  /\ pc = "d_close"
  /\ pending' = NULL
  /\ IF pending # NULL
     THEN /\ Throw("d_read", pending)
          /\ UNCHANGED <<fd, failed, touched>>
     ELSE /\ fd' = Closed
          /\ \E closes \in BOOLEAN :
               IF closes
               THEN /\ pc' = "d_score"
                    /\ UNCHANGED <<outcome, detection, result, failed, touched>>
               ELSE /\ Throw("d_close", EIO("close"))
                    /\ failed' = Append(failed, "d_close")
                    /\ touched' = TRUE
  /\ UNCHANGED <<op, filePath, file, file0, fileSize, contentSample, lastDetection>>
  /\ UNCHANGED processorVars

\* finally { fs.closeSync(fd) }, then the catch clause: the system says
\* whether the close succeeds.  If it does, an error of the read goes on to
\* the catch clause; if it fails, its error replaces that of the read and
\* goes to the catch clause, the sample staying what the read has made it.
\* The descriptor is released in both cases.
DetectClose ==
  /\ pc = "d_close"
  /\ fd' = Closed
  /\ pending' = NULL
  /\ \E closes \in BOOLEAN :
       IF closes
       THEN /\ IF pending # NULL
               THEN Throw("d_read", pending)
               ELSE /\ pc' = "d_score"
                    /\ UNCHANGED <<outcome, detection, result>>
            /\ UNCHANGED <<failed, touched>>
       ELSE /\ Throw("d_close", EIO("close"))
            /\ failed' = Append(failed, "d_close")
            /\ touched' = TRUE
  /\ UNCHANGED <<op, filePath, file, file0, fileSize, contentSample, lastDetection>>
  /\ UNCHANGED processorVars

\* the scoring, from "detection strategies" to the return
DetectScore ==
  /\ pc = "d_score"
  /\ detection' = scoreResult(filePath, contentSample, detection.reasons)
  /\ pc' = afterDetect
  /\ outcome' = outcomeAfterDetect
  /\ UNCHANGED <<op, filePath, file, file0, touched, fileSize, fd, pending,
                 contentSample, result, failed, lastDetection>>
  /\ UNCHANGED processorVars

-----------------------------------------------------------------------------
(* validateFile, step by step *)

\* the existence check without its return: the error is recorded and the
\* call goes on to fs.statSync
ValidateExistsNoReturn ==
  /\ pc = "v_exists"
  /\ IF fsExistsSync(file)
     THEN /\ pc' = "v_stat"
          /\ UNCHANGED <<outcome, result>>
     ELSE /\ result' = [result EXCEPT !.errors = Append(@, "File not found: " \o filePath),
                                      !.isValid = FALSE]
          /\ pc' = "v_stat"
          /\ UNCHANGED outcome
  /\ UNCHANGED <<op, filePath, file, file0, touched, fileSize, fd, pending,
                 contentSample, detection, failed, lastDetection>>
  /\ UNCHANGED processorVars

\* if (!fs.existsSync(filePath)) { ...; return result; }
ValidateExists ==
  /\ pc = "v_exists"
  /\ IF fsExistsSync(file)
     THEN /\ pc' = "v_stat"
          /\ UNCHANGED <<outcome, result>>
     ELSE /\ result' = [result EXCEPT !.errors = Append(@, "File not found: " \o filePath),
                                      !.isValid = FALSE]
          /\ pc' = "done"
          /\ outcome' = "returned"
  /\ UNCHANGED <<op, filePath, file, file0, touched, fileSize, fd, pending,
                 contentSample, detection, failed, lastDetection>>
  /\ UNCHANGED processorVars

\* const stats = fs.statSync(filePath), the file info, the empty-file check,
\* and the entry into this.detectFileType(filePath)
ValidateStat ==
  /\ pc = "v_stat"
  /\ IF file.kind = "absent"
     THEN /\ Throw("v_stat", ENOENT("stat", filePath))
          /\ failed' = Append(failed, "v_stat")
     ELSE /\ failed' = failed
          /\ IF file.size = 0
             THEN /\ result' = [result EXCEPT
                                  !.fileInfo.size = file.size,
                                  !.fileInfo.extension = toLowerCase(extname(filePath)),
                                  !.errors = Append(@, "File is empty"),
                                  !.isValid = FALSE]
                  /\ pc' = "done"
                  /\ outcome' = "returned"
                  /\ UNCHANGED detection
             ELSE /\ result' = [result EXCEPT
                                  !.fileInfo.size = file.size,
                                  !.fileInfo.extension = toLowerCase(extname(filePath))]
                  /\ detection' = NewDetectionResult
                  /\ pc' = "d_exists"
                  /\ UNCHANGED outcome
  /\ UNCHANGED <<op, filePath, file, file0, touched, fileSize, fd, pending,
                 contentSample, lastDetection>>
  /\ UNCHANGED processorVars

\* warningsOf with the confidence threshold 0.3 instead of 0.7
warningsOfThreshold03(d, size) ==
  (IF d.confidence30 < 9
   THEN << "File type detection confidence is low ("
             \o percentFixed1(d.confidence30) \o "%)",
           "Detection reasons: " \o join(d.reasons) >>
   ELSE <<>>)
  \o (IF size > LARGE_FILE_BYTES
      THEN <<"File is very large (>100MB), processing might be slow">>
      ELSE <<>>)

\* warningsOf with the two low-confidence warnings pushed in the other order
warningsOfReasonsFirst(d, size) ==
  (IF d.confidence30 < 21
   THEN << "Detection reasons: " \o join(d.reasons),
           "File type detection confidence is low ("
             \o percentFixed1(d.confidence30) \o "%)" >>
   ELSE <<>>)
  \o (IF size > LARGE_FILE_BYTES
      THEN <<"File is very large (>100MB), processing might be slow">>
      ELSE <<>>)

\* warningsOf with the size test stats.size >= 100 * 1024 * 1024
warningsOfAtLeast100MB(d, size) ==
  (IF d.confidence30 < 21
   THEN << "File type detection confidence is low ("
             \o percentFixed1(d.confidence30) \o "%)",
           "Detection reasons: " \o join(d.reasons) >>
   ELSE <<>>)
  \o (IF size >= LARGE_FILE_BYTES
      THEN <<"File is very large (>100MB), processing might be slow">>
      ELSE <<>>)

\* the warnings validateFile adds for a detection and a file size
warningsOf(d, size) ==
  (IF d.confidence30 < 21
   THEN << "File type detection confidence is low ("
             \o percentFixed1(d.confidence30) \o "%)",
           "Detection reasons: " \o join(d.reasons) >>
   ELSE <<>>)
  \o (IF size > LARGE_FILE_BYTES
      THEN <<"File is very large (>100MB), processing might be slow">>
      ELSE <<>>)

\* ValidateFinish without the check `if (!result.fileType)`
ValidateFinishNoTypeCheck ==
  /\ pc = "v_finish"
  /\ result' = [result EXCEPT
                  !.fileType = detection.detectedType,
                  !.warnings = @ \o warningsOf(detection, result.fileInfo.size)]
  /\ pc' = "done"
  /\ outcome' = "returned"
  /\ UNCHANGED <<op, filePath, file, file0, touched, fileSize, fd, pending,
                 contentSample, detection, failed, lastDetection>>
  /\ UNCHANGED processorVars

\* validateFile from the return of detectFileType to its own return
ValidateFinish ==
  /\ pc = "v_finish"
  /\ result' =
       LET r == [result EXCEPT
                   !.fileType = detection.detectedType,
                   !.warnings = @ \o warningsOf(detection, result.fileInfo.size)]
       IN IF r.fileType = NULL
          THEN [r EXCEPT
                  !.errors = Append(@,
                    "Unable to determine file type. Supported types: CSV, Excel (.xlsx, .xls), XML"),
                  !.isValid = FALSE]
          ELSE r
  /\ pc' = "done"
  /\ outcome' = "returned"
  /\ UNCHANGED <<op, filePath, file, file0, touched, fileSize, fd, pending,
                 contentSample, detection, failed, lastDetection>>
  /\ UNCHANGED processorVars

-----------------------------------------------------------------------------
(* getProcessorForFile and isFileTypeSupported: what they return for the
   validation their validateFile call gave them *)

\* getProcessorForFile with "XMLProcessor" as the name for XML
getProcessorForFileUpperXml(validation) ==
  IF ~validation.isValid \/ validation.fileType = NULL THEN NULL
  ELSE IF validation.fileType = CSV THEN "CSVProcessor"
  ELSE IF validation.fileType = EXCEL THEN "ExcelProcessor"
  ELSE IF validation.fileType = XML THEN "XMLProcessor"
  ELSE NULL

\* the value getProcessorForFile returns for `validation`
getProcessorForFile(validation) ==
  IF ~validation.isValid \/ validation.fileType = NULL THEN NULL
  ELSE IF validation.fileType = CSV THEN "CSVProcessor"
  ELSE IF validation.fileType = EXCEL THEN "ExcelProcessor"
  ELSE IF validation.fileType = XML THEN "XmlProcessor"
  ELSE NULL

\* the value isFileTypeSupported returns for `validation`
isFileTypeSupported(validation) ==
  validation.isValid /\ validation.fileType # NULL

-----------------------------------------------------------------------------
(* The calls as functions of the path and of a file that does not change *)

\* the content sample detectFileType takes of f
contentSampleOf(f) ==
  IF f.kind = "file" /\ f.readable
  THEN bufferToString(readSync(f, sampleSizeOf(f.size)))
  ELSE <<>>

\* the reasons the inner catch of detectFileType leaves for f
sampleFailureOf(p, f) ==
  IF f.kind = "file" /\ ~f.readable
  THEN <<"Content analysis failed: " \o EACCES("open", p)>>
  ELSE IF f.kind = "dir"
  THEN <<"Content analysis failed: " \o EISDIR("read")>>
  ELSE <<>>

\* detectFileType(p) when p names f throughout the call; the sample is taken
\* once and then scored
detectFileTypeOf(p, f) ==
  CHOOSE d \in {scoreResult(p, sample, sampleFailureOf(p, f)) :
                  sample \in {contentSampleOf(f)}} : TRUE

\* validateFile(p) when p names f throughout the call
validateFileOf(p, f) ==
  IF ~fsExistsSync(f)
  THEN [NewValidationResult(p) EXCEPT
          !.errors = <<"File not found: " \o p>>, !.isValid = FALSE]
  ELSE LET r == [NewValidationResult(p) EXCEPT
                   !.fileInfo.size = f.size,
                   !.fileInfo.extension = toLowerCase(extname(p))]
           d == detectFileTypeOf(p, f)
       IN IF f.size = 0
          THEN [r EXCEPT !.errors = <<"File is empty">>, !.isValid = FALSE]
          ELSE IF d.detectedType = NULL
          THEN [r EXCEPT
                  !.warnings = warningsOf(d, f.size),
                  !.errors =
                    <<"Unable to determine file type. Supported types: CSV, Excel (.xlsx, .xls), XML">>,
                  !.isValid = FALSE]
          ELSE [r EXCEPT !.fileType = d.detectedType,
                         !.warnings = warningsOf(d, f.size)]

-----------------------------------------------------------------------------
(* Specification *)

Next ==
  \/ \E p \in Paths, f \in FileStates : CallDetectFileType(p, f)
  \/ \E p \in Paths, f \in FileStates : CallValidateFile(p, f)
  \/ \E p \in LargeFilePaths, f \in LargeFileStates : CallValidateFile(p, f)
  \/ \E p \in Paths, f \in FileStates : CallGetProcessorForFile(p, f)
  \/ \E p \in Paths, f \in FileStates : CallIsFileTypeSupported(p, f)
  \/ Return(FALSE)
  \/ EnvUnlink
  \/ EnvChmod
  \/ DetectExists
  \/ DetectStat
  \/ DetectOpen
  \/ DetectRead
  \/ DetectClose
  \/ DetectScore
  \/ ValidateExists
  \/ ValidateStat
  \/ ValidateFinish

Spec == Init /\ [][Next]_vars

\* the paths and the files of the calls a caller compares: a CSV name and a
\* name that says nothing, on no file, a directory, a CSV file and a file
\* that cannot be opened
RepeatPaths == {"report.csv", "ambiguous.unknown"}
RepeatFiles ==
  { Absent, Directory, RegularFile(Bytes("name,age\nJohn,30\nJane,25"), TRUE),
    RegularFile(Bytes("some,data\nother,info"), FALSE) }

\* the calls of the four methods in any order, a caller keeping the result
\* of some detectFileType call to compare a later one with it
NextRepeat ==
  \/ \E p \in RepeatPaths, f \in RepeatFiles : CallDetectFileType(p, f)
  \/ \E p \in RepeatPaths, f \in RepeatFiles : CallValidateFile(p, f)
  \/ \E p \in RepeatPaths, f \in RepeatFiles : CallGetProcessorForFile(p, f)
  \/ \E p \in RepeatPaths, f \in RepeatFiles : CallIsFileTypeSupported(p, f)
  \/ \E keeps \in BOOLEAN : Return(keeps)
  \/ EnvUnlink
  \/ EnvChmod
  \/ DetectExists
  \/ DetectStat
  \/ DetectOpen
  \/ DetectRead
  \/ DetectClose
  \/ DetectScore
  \/ ValidateExists
  \/ ValidateStat
  \/ ValidateFinish

SpecRepeat == Init /\ [][NextRepeat]_vars

-----------------------------------------------------------------------------
(* ExcelProcessor (src/unnamed/part_001): one processor object whose
   processSheet and getPreview calls are started by a caller that may or may
   not await one call before it starts the next.  A call runs without
   interruption up to its await; what follows the await runs later, as a
   microtask, in the order the calls reached their await. *)

\* the most calls made on the processor
MaxCalls == 2

\* a value `if (x)` takes for true, among undefined and strings
Truthy(x) == x # UNDEFINED /\ x # ""

\* Array.prototype.slice(begin, end) on integers
slice(a, begin, end) ==
  LET len == Len(a)
      k == IF begin < 0 THEN (IF len + begin > 0 THEN len + begin ELSE 0)
           ELSE Min(begin, len)
      final == IF end < 0 THEN (IF len + end > 0 THEN len + end ELSE 0)
               ELSE Min(end, len)
  IN SubSeq(a, k + 1, final)

\* what the path given to the processor names: nothing (NoWorkbook), a file
\* of size 0, a file XLSX.readFile throws on, or a workbook with its sheets
\* in order
CorruptWorkbook == [kind |-> "corrupt", SheetNames |-> <<>>]
EmptyWorkbookFile == [kind |-> "empty", SheetNames |-> <<>>]
Workbook(names) == [kind |-> "workbook", SheetNames |-> names]

ExcelFiles == {NoWorkbook, EmptyWorkbookFile, Workbook(<<"Sheet1", "Sheet2">>)}

\* the path of the workbook
ExcelPath == "book.xlsx"

\* the sheet names a caller passes
SheetNameArgs == {"Sheet1", "Sheet2", "Missing", ""}

\* the rows XLSX.utils.sheet_to_json gives for a sheet: three rows, told
\* apart by the sheet they are from
sheetToJson(sheet) == <<sheet \o "!2", sheet \o "!3", sheet \o "!4">>

\* the outcome of an async method: the value it resolves to or the message
\* of the error it rejects with
Resolved(sheet, data) == [ok |-> TRUE, sheet |-> sheet, data |-> data, error |-> ""]
Rejected(msg) == [ok |-> FALSE, sheet |-> "", data |-> <<>>, error |-> msg]

\* ExcelProcessor.processFile with this.options = opts on a path naming f
processFile(opts, path, f) ==
  IF f.kind = "absent" THEN Rejected("File not found: " \o path)
  ELSE IF f.kind = "empty" THEN Rejected("File is empty: " \o path)
  ELSE IF f.kind = "corrupt"
  THEN Rejected("Excel processing error: File is not a workbook")
  ELSE IF Truthy(opts.sheetName)
  THEN IF arrayIncludes(f.SheetNames, opts.sheetName)
       THEN Resolved(opts.sheetName, sheetToJson(opts.sheetName))
       ELSE Rejected("Excel processing error: Sheet \"" \o opts.sheetName
                       \o "\" not found")
  ELSE IF opts.sheetIndex + 1 <= Len(f.SheetNames)
  THEN Resolved(f.SheetNames[opts.sheetIndex + 1],
                sheetToJson(f.SheetNames[opts.sheetIndex + 1]))
  ELSE Rejected("Excel processing error: Sheet index "
                  \o natToString(opts.sheetIndex) \o " not found")

\* the objects a caller passes to setOptions: each names some of the options
SetOptionsArgs ==
  { [header |-> "A"],
    [sheetIndex |-> 1, sheetName |-> UNDEFINED],
    [sheetIndex |-> 2, sheetName |-> "Sheet2"] }

\* { ...opts, ...partial }: the options partial names replace those of opts
spread(opts, partial) ==
  LET pick(k) == IF k \in DOMAIN partial THEN partial[k] ELSE opts[k]
  IN [sheetName |-> pick("sheetName"), header |-> pick("header"),
      sheetIndex |-> pick("sheetIndex")]

\* setOptions(partial), at any moment between the steps of the calls: before
\* the first call it sets what the calls start from; later it is recorded
\* among the calls
ExcelSetOptions(partial) ==
  /\ options' = spread(options, partial)
  /\ IF tasks = <<>>
     THEN /\ options0' = options'
          /\ UNCHANGED tasks
     ELSE /\ Len(tasks) < MaxCalls
          /\ tasks' = Append(tasks,
               [method |-> "setOptions", pc |-> "done",
                sheetName |-> UNDEFINED,
                originalSheetName |-> options.sheetName,
                originalHeader |-> options.header,
                rows |-> 0,
                settled |-> Resolved("", <<>>)])
          /\ UNCHANGED options0
  /\ UNCHANGED microtasks
  /\ UNCHANGED <<validatorVars, cliVars, csvVars, xmlVars>>

\* processSheet that writes the option only when none is set: a call made
\* while another is at its await works with the sheet of that other call
ProcessSheetStartKeepsOption(f, sheetName) ==
  /\ Len(tasks) < MaxCalls
  /\ LET opts == IF Truthy(options.sheetName) THEN options
                 ELSE [options EXCEPT !.sheetName = sheetName] IN
       /\ options' = opts
       /\ tasks' = Append(tasks,
            [method |-> "processSheet", pc |-> "await",
             sheetName |-> sheetName,
             originalSheetName |-> options.sheetName,
             originalHeader |-> UNDEFINED,
             rows |-> 0,
             settled |-> processFile(opts, ExcelPath, f)])
  /\ microtasks' = Append(microtasks, Len(tasks) + 1)
  /\ UNCHANGED options0
  /\ UNCHANGED <<validatorVars, cliVars, csvVars, xmlVars>>

\* processSheet(filePath, sheetName) up to its await: the option is saved
\* and overwritten, and processFile runs to its end
ProcessSheetStart(f, sheetName) ==
  /\ Len(tasks) < MaxCalls
  /\ LET opts == [options EXCEPT !.sheetName = sheetName] IN
       /\ options' = opts
       /\ tasks' = Append(tasks,
            [method |-> "processSheet", pc |-> "await",
             sheetName |-> sheetName,
             originalSheetName |-> options.sheetName,
             originalHeader |-> UNDEFINED,
             rows |-> 0,
             settled |-> processFile(opts, ExcelPath, f)])
  /\ microtasks' = Append(microtasks, Len(tasks) + 1)
  /\ UNCHANGED options0
  /\ UNCHANGED <<validatorVars, cliVars, csvVars, xmlVars>>

\* getPreview(filePath, rows, sheetName) up to its await
GetPreviewStart(f, rows, sheetName) ==
  /\ Len(tasks) < MaxCalls
  /\ LET opts == IF Truthy(sheetName)
                 THEN [options EXCEPT !.sheetName = sheetName]
                 ELSE options IN
       /\ options' = opts
       /\ tasks' = Append(tasks,
            [method |-> "getPreview", pc |-> "await",
             sheetName |-> sheetName,
             originalSheetName |-> options.sheetName,
             originalHeader |-> options.header,
             rows |-> rows,
             settled |-> processFile(opts, ExcelPath, f)])
  /\ microtasks' = Append(microtasks, Len(tasks) + 1)
  /\ UNCHANGED options0
  /\ UNCHANGED <<validatorVars, cliVars, csvVars, xmlVars>>

\* the call at the head of the microtask queue goes on after its await: the
\* result is built or the error passed on, and the finally block puts the
\* saved options back
ExcelResume ==
  /\ microtasks # <<>>
  /\ LET t == Head(microtasks)
         task == tasks[t]
     IN /\ tasks' = [tasks EXCEPT
                       ![t].pc = "done",
                       ![t].settled =
                         IF task.method = "getPreview" /\ task.settled.ok
                         THEN [task.settled EXCEPT !.data = slice(@, 0, task.rows)]
                         ELSE task.settled]
        /\ options' =
             IF task.method = "getPreview"
             THEN [options EXCEPT !.header = task.originalHeader,
                                  !.sheetName = task.originalSheetName]
             ELSE [options EXCEPT !.sheetName = task.originalSheetName]
  /\ microtasks' = Tail(microtasks)
  /\ UNCHANGED options0
  /\ UNCHANGED <<validatorVars, cliVars, csvVars, xmlVars>>

NextExcel ==
  \/ \E partial \in SetOptionsArgs : ExcelSetOptions(partial)
  \/ \E f \in ExcelFiles, sheetName \in SheetNameArgs : ProcessSheetStart(f, sheetName)
  \/ \E f \in ExcelFiles, rows \in {2}, sheetName \in SheetNameArgs \cup {UNDEFINED} :
       GetPreviewStart(f, rows, sheetName)
  \/ ExcelResume

SpecExcel == Init /\ [][NextExcel]_vars

-----------------------------------------------------------------------------
(* CSVProcessor (src/src/processors/csvProcessor.ts): getPreview on a file
   that does not change during the call.  The files are comma separated text
   without quotes and without blank lines; csv-parser takes the first line
   as the headers and every later line as one row. *)

\* the largest row count asked of getPreview
MaxPreviewRows == 7

\* the default of the parameter rows
DefaultPreviewRows == 5

\* the row counts getPreview is called with
PreviewRowArgs == -2..MaxPreviewRows

CsvPath == "people.csv"

\* the pieces of a line between the separators
RECURSIVE splitCells(_, _)
splitCells(line, separator) ==
  LET j == IndexFrom(line, separator, 1) IN
    IF j = 0 THEN <<line>>
    ELSE <<SubSeq(line, 1, j - 1)>> \o splitCells(SubSeq(line, j + 1, Len(line)), separator)

\* the lines csv-parser sees: a line feed ends a line, so one at the end of
\* the content starts no further line
csvLines(content) ==
  LET pieces == splitLines(content) IN
    IF pieces[Len(pieces)] = <<>> THEN SubSeq(pieces, 1, Len(pieces) - 1) ELSE pieces

\* one row object: the cell under each header
csvRow(headers, cells) ==
  [h \in {headers[i] : i \in 1..Min(Len(headers), Len(cells))} |->
     cells[CHOOSE i \in 1..Min(Len(headers), Len(cells)) :
             /\ headers[i] = h
             /\ \A k \in (i + 1)..Min(Len(headers), Len(cells)) : headers[k] # h]]

\* a resolved and a rejected promise of processFile or getPreview
CsvResolved(data, rowCount, headers) ==
  [state |-> "resolved", data |-> data, rowCount |-> rowCount, headers |-> headers,
   error |-> ""]
CsvRejected(msg) ==
  [state |-> "rejected", data |-> <<>>, rowCount |-> 0, headers |-> <<>>, error |-> msg]

\* the promise of processFile when the read stream fails: the 'error'
\* listener is on the csv-parser stream, which pipe does not pass the error
\* of the read stream to, so neither resolve nor reject is called and the
\* error is raised as an uncaught exception of the process
CsvNeverSettles(uncaught) ==
  [state |-> "pending", data |-> <<>>, rowCount |-> 0, headers |-> <<>>, error |-> "",
   uncaught |-> uncaught]

\* CSVProcessor.processFile(path) with the default options when path names f
csvProcessFile(path, f) ==
  IF ~fsExistsSync(f) THEN CsvRejected("File not found: " \o path)
  ELSE IF f.size = 0 THEN CsvRejected("File is empty: " \o path)
  ELSE IF f.kind = "dir" THEN CsvNeverSettles(EISDIR("read"))
  ELSE IF ~f.readable THEN CsvNeverSettles(EACCES("open", path))
  ELSE LET lines == csvLines(bufferToString(f.data))
           headers == splitCells(lines[1], 44)
           results == [i \in 1..(Len(lines) - 1) |->
                         csvRow(headers, splitCells(lines[i + 1], 44))]
       IN CsvResolved(results, Len(results), headers)

\* the result of getPreview with rowCount: rows, not the smaller of rows and
\* fullResult.rowCount
csvPreviewRowCountAsAsked(fullResult, rows) ==
  [fullResult EXCEPT !.data = slice(@, 0, rows), !.rowCount = rows]

\* the object getPreview returns: { ...fullResult, data: fullResult.data.slice(0, rows),
\* rowCount: Math.min(rows, fullResult.rowCount) }
csvPreview(fullResult, rows) ==
  [fullResult EXCEPT !.data = slice(@, 0, rows),
                     !.rowCount = Min(rows, fullResult.rowCount)]

\* the contents of the CSV files: the headers alone, then one to six rows
CsvContents ==
  { Bytes("id,name"),
    Bytes("id,name\n1,Ann"),
    Bytes("id,name\n1,Ann\n2,Bob\n"),
    Bytes("name,age,city\nJohn,30,York\nJane,25,London\nBob,35,Toronto"),
    Bytes("name,age\nJohn,30\nJane,25\nBob,35\nAlice,28"),
    Bytes("k,v\na,1\nb,2\nc,3\nd,4\ne,5"),
    Bytes("k,v\na,1\nb,2\nc,3\nd,4\ne,5\nf,6") }

\* what CsvPath names when getPreview is called: no file, an empty one, a
\* directory, a file that cannot be opened, and the files of CsvContents
CsvFiles ==
  {Absent, RegularFile(<<>>, TRUE), Directory, RegularFile(Bytes("id,name\n1,Ann"), FALSE)}
    \cup {RegularFile(d, TRUE) : d \in CsvContents}

\* processor.getPreview(CsvPath, rows) up to its await
CsvGetPreview(f, rows) ==
  /\ csvCall.pc \in {"idle", "done"}
  /\ csvCall' = [pc |-> "processFile", filePath |-> CsvPath, file |-> f,
                 rows |-> rows]
  /\ csvSettled' = Pending
  /\ UNCHANGED <<validatorVars, excelVars, cliVars, xmlVars>>

\* the promise of processFile settles; a rejection is the rejection of getPreview
CsvProcessFileSettles ==
  /\ csvCall.pc = "processFile"
  /\ LET fullResult == csvProcessFile(csvCall.filePath, csvCall.file) IN
       /\ fullResult.state # "pending"
       /\ IF fullResult.state = "rejected"
          THEN /\ csvSettled' = fullResult
               /\ csvCall' = [csvCall EXCEPT !.pc = "done"]
          ELSE /\ csvSettled' = Pending
               /\ csvCall' = [csvCall EXCEPT !.pc = "return"]
  /\ UNCHANGED <<validatorVars, excelVars, cliVars, xmlVars>>

\* the read stream of processFile emits 'error', which has no listener: the
\* promise stays pending, getPreview never returns, and the uncaught
\* exception ends the process, in which no further call is made
CsvReadStreamError ==
  /\ csvCall.pc = "processFile"
  /\ csvProcessFile(csvCall.filePath, csvCall.file).state = "pending"
  /\ csvCall' = [csvCall EXCEPT !.pc = "uncaught"]
  /\ csvSettled' = Pending
  /\ UNCHANGED <<validatorVars, excelVars, cliVars, xmlVars>>

\* getPreview resumes after its await and returns
CsvGetPreviewReturns ==
  /\ csvCall.pc = "return"
  /\ csvSettled' = csvPreview(csvProcessFile(csvCall.filePath, csvCall.file), csvCall.rows)
  /\ csvCall' = [csvCall EXCEPT !.pc = "done"]
  /\ UNCHANGED <<validatorVars, excelVars, cliVars, xmlVars>>

NextCsv ==
  \/ \E f \in CsvFiles, rows \in PreviewRowArgs : CsvGetPreview(f, rows)
  \/ \E f \in CsvFiles : CsvGetPreview(f, DefaultPreviewRows)
  \/ CsvProcessFileSettles
  \/ CsvReadStreamError
  \/ CsvGetPreviewReturns

SpecCsv == Init /\ [][NextCsv]_vars

-----------------------------------------------------------------------------
(* XmlProcessor (src/src/processors/xmlProcessor.ts): processFile and
   getElementsPaths on a file that does not change during the call.  A
   document is given as the object xml2js parses it to with the options of
   the constructor (explicitRoot, no explicitArray): an element with text
   alone is a string, any other element an object with one entry per child
   name, "$" for its attributes and "_" for its text, in document order. *)

\* a string value and an object value of the parsed document
Text(t) == [type |-> "string", text |-> t, entries |-> <<>>]
Obj(entries) == [type |-> "object", text |-> "", entries |-> entries]

\* one entry of an object: Object.entries gives them in insertion order
Entry(key, value) == [key |-> key, value |-> value]

\* '$' in value
HasAttributes(value) ==
  value.type = "object" /\ \E i \in 1..Len(value.entries) : value.entries[i].key = "$"

\* flattenElements(data, path): one element per entry of data, its children
\* nested in it; children is <<>> where the code leaves it unset
RECURSIVE flattenElements(_, _)
flattenElements(data, path) ==
  IF data.type # "object" THEN <<>>
  ELSE [i \in 1..Len(data.entries) |->
          LET key == data.entries[i].key
              value == data.entries[i].value
              currentPath == IF path # "" THEN path \o "." \o key ELSE key
          IN [name |-> key,
              path |-> currentPath,
              hasAttributes |-> HasAttributes(value),
              value |-> IF value.type = "string" THEN value.text ELSE UNDEFINED,
              children |-> flattenElements(value, currentPath)]]

\* what the path names: nothing, a file of size 0, a file of white space, a
\* file xml2js rejects with the message of its error, or a document with its
\* parsed object
EmptyXmlFile == [kind |-> "empty"]
BlankXmlFile == [kind |-> "blank"]
MalformedXmlFile(message) == [kind |-> "malformed", message |-> message]

\* the messages of the errors xml2js rejects a file with: text before the
\* root element, and a root element that is not closed
ParserErrors ==
  { "Non-whitespace before first tag.\nLine: 0\nColumn: 1\nChar: n",
    "Unclosed root tag\nLine: 0\nColumn: 6\nChar: " }
XmlDocument(data) == [kind |-> "document", data |-> data]

XmlPath == "doc.xml"

\* a resolved promise of processFile (elements) or getElementsPaths (paths)
\* and a rejected one
XmlResolved(elements, paths) ==
  [state |-> "resolved", elements |-> elements, paths |-> paths, error |-> ""]
XmlRejected(msg) ==
  [state |-> "rejected", elements |-> <<>>, paths |-> <<>>, error |-> msg]

\* XmlProcessor.processFile(path) when path names f: the elements of its
\* result or the error it throws
xmlProcessFile(path, f) ==
  IF f.kind = "absent" THEN XmlRejected("File not found: " \o path)
  ELSE IF f.kind = "empty" THEN XmlRejected("File is empty: " \o path)
  ELSE IF f.kind = "blank"
  THEN XmlRejected("XML processing error: XML file contains no content")
  ELSE IF f.kind = "malformed"
  THEN IF includes(f.message, "Non-whitespace before first tag")
       THEN XmlRejected("Invalid XML: File contains non-XML content before the root element")
       ELSE XmlRejected("XML processing error: " \o f.message)
  ELSE XmlResolved(flattenElements(f.data, ""), <<>>)

\* result.elements.map(element => element.path)
elementPaths(elements) == [i \in 1..Len(elements) |-> elements[i].path]

\* the values of the elements of the documents, by nesting depth
XmlLeaves ==
  { Text("Test"),
    Obj(<<Entry("item", Text("Item 1"))>>),
    Obj(<<Entry("title", Text("Title"))>>),
    Obj(<<Entry("_", Text("12.99")), Entry("$", Obj(<<Entry("currency", Text("USD"))>>))>>) }
XmlSections ==
  XmlLeaves \cup
    {Obj(<<Entry("section", a), Entry("footer", b)>>) : a, b \in XmlLeaves}
XmlRoots ==
  XmlSections \cup {Obj(<<Entry("body", a)>>) : a \in XmlSections}

\* what XmlPath names when a call is made
XmlFiles ==
  {NoXmlFile, EmptyXmlFile, BlankXmlFile}
    \cup {MalformedXmlFile(message) : message \in ParserErrors}
    \cup {XmlDocument(Obj(<<Entry("root", v)>>)) : v \in XmlRoots}

XmlMethods == {"processFile", "getElementsPaths"}

\* processor.processFile(XmlPath) or processor.getElementsPaths(XmlPath),
\* up to the await of processFile: the file is checked and read.  An error
\* thrown before the await rejects the promise of processFile at once; the
\* promise of getElementsPaths settles when its then callback has run
XmlCall(method, f) ==
  /\ xmlCall.pc \in {"idle", "done"}
  /\ IF f.kind \notin {"absent", "empty", "blank"}
     THEN /\ xmlCall' = [pc |-> "parse", method |-> method, filePath |-> XmlPath, file |-> f]
          /\ xmlSettled' = Pending
     ELSE IF method = "getElementsPaths"
     THEN /\ xmlCall' = [pc |-> "then", method |-> method, filePath |-> XmlPath, file |-> f]
          /\ xmlSettled' = Pending
     ELSE /\ xmlCall' = [pc |-> "done", method |-> method, filePath |-> XmlPath, file |-> f]
          /\ xmlSettled' = xmlProcessFile(XmlPath, f)
  /\ UNCHANGED <<validatorVars, excelVars, cliVars, csvVars>>

\* parseStringPromise settles and processFile returns or throws
XmlProcessFileSettles ==
  /\ xmlCall.pc = "parse"
  /\ IF xmlCall.method = "getElementsPaths"
     THEN /\ xmlSettled' = Pending
          /\ xmlCall' = [xmlCall EXCEPT !.pc = "then"]
     ELSE /\ xmlSettled' = xmlProcessFile(xmlCall.filePath, xmlCall.file)
          /\ xmlCall' = [xmlCall EXCEPT !.pc = "done"]
  /\ UNCHANGED <<validatorVars, excelVars, cliVars, csvVars>>

\* the promise processFile(filePath).then(...) gives: the callback maps the
\* elements to their paths; a rejection of processFile is passed on
XmlGetElementsPathsThen ==
  /\ xmlCall.pc = "then"
  /\ LET settled == xmlProcessFile(xmlCall.filePath, xmlCall.file) IN
       xmlSettled' = IF settled.state = "resolved"
                     THEN XmlResolved(<<>>, elementPaths(settled.elements))
                     ELSE settled
  /\ xmlCall' = [xmlCall EXCEPT !.pc = "done"]
  /\ UNCHANGED <<validatorVars, excelVars, cliVars, csvVars>>

NextXml ==
  \/ \E method \in XmlMethods, f \in XmlFiles : XmlCall(method, f)
  \/ XmlProcessFileSettles
  \/ XmlGetElementsPathsThen

SpecXml == Init /\ [][NextXml]_vars

-----------------------------------------------------------------------------
(* The command line program (src/src/cli/index.ts): the actions of the
   commands convert-csv, convert-excel, convert-xml and process.  An action
   runs without interruption up to an await and goes on in a later step, once
   what it awaits has settled; so does an async method of a processor that
   changes something after its own await.  cliPc names the await the action
   is at; `events` records the calls it has made, each when it is made, and
   the output it has produced. *)

\* something the action did: a processor method it called, with the sheet
\* the call read if it read one, or an output it produced
Event(kind, class, sheet) == [kind |-> kind, processor |-> class, sheet |-> sheet]

\* parseInt(options.preview) with the default '5'
PreviewRows == 5

\* the values of --sheet and --output
SheetOptions == {UNDEFINED, "Sheet1", "Sheet2", "Missing"}
OutputOptions == {UNDEFINED, "out.json"}

\* one step of an action: it goes on to the await `next`, having done `done`
Step(next, done) ==
  /\ cliPc' = next
  /\ events' = events \o done
  /\ UNCHANGED <<command, argv, options0, tasks, microtasks>>
  /\ UNCHANGED <<validatorVars, csvVars, xmlVars>>

\* the catch block of an action: the message of the error is printed
Catch == Step("done", <<Event("error", "", "")>>)

\* ExcelProcessor.validateExcel on ExcelPath naming f: isValid and the errors
validateExcel(path, f) ==
  IF f.kind = "absent" THEN [isValid |-> FALSE, errors |-> <<"File not found: " \o path>>]
  ELSE IF f.kind = "empty" THEN [isValid |-> FALSE, errors |-> <<"File is empty">>]
  ELSE IF f.kind = "corrupt"
  THEN [isValid |-> FALSE, errors |-> <<"Validation error: File is not a workbook">>]
  ELSE IF Len(f.SheetNames) = 0
  THEN [isValid |-> FALSE, errors |-> <<"No sheets found in the Excel file">>]
  ELSE [isValid |-> TRUE, errors |-> <<>>]

\* processor.getAllSheets(path) up to its first await: the workbook is read
\* and processSheet called for its first sheet, which writes
\* options.sheetName and runs processFile; a workbook without sheets gives
\* the empty result at once
GetAllSheetsCalled(before) ==
  IF Len(argv.workbook.SheetNames) = 0
  THEN /\ Step("getAllSheets", before)
       /\ sheetAt' = 0
       /\ UNCHANGED options
  ELSE LET sheetName == argv.workbook.SheetNames[1]
           opts == [options EXCEPT !.sheetName = sheetName]
       IN /\ options' = opts
          /\ sheetAt' = 1
          /\ Step("processSheet",
                  Append(before, Event("convert", "ExcelProcessor",
                                       processFile(opts, argv.path, argv.workbook).sheet)))

\* the processSheet call that getAllSheets awaits goes on after its await:
\* its finally block deletes options.sheetName, which was undefined before
ProcessSheetSettles ==
  /\ cliPc = "processSheet"
  /\ options' = [options EXCEPT !.sheetName = UNDEFINED]
  /\ Step("nextSheet", <<>>)
  /\ UNCHANGED <<processor, sheetAt>>

\* getAllSheets goes on after its await: the result of the sheet is kept or
\* the warning printed, and processSheet is called for the next sheet; after
\* the last sheet the results are returned
GetAllSheetsNext ==
  /\ cliPc = "nextSheet"
  /\ LET SheetNames == argv.workbook.SheetNames
         settled == processFile([options EXCEPT !.sheetName = SheetNames[sheetAt]],
                                argv.path, argv.workbook)
         warned == IF settled.ok THEN <<>>
                   ELSE <<Event("warn", "ExcelProcessor", SheetNames[sheetAt])>>
     IN IF sheetAt < Len(SheetNames)
        THEN LET opts == [options EXCEPT !.sheetName = SheetNames[sheetAt + 1]] IN
               /\ options' = opts
               /\ sheetAt' = sheetAt + 1
               /\ Step("processSheet",
                       Append(warned, Event("convert", "ExcelProcessor",
                                processFile(opts, argv.path, argv.workbook).sheet)))
        ELSE /\ Step("getAllSheets", warned)
             /\ sheetAt' = 0
             /\ UNCHANGED options
  /\ UNCHANGED processor

\* const targetSheet = options.sheet || sheetNames[0]
targetSheet ==
  IF Truthy(argv.sheet) THEN argv.sheet ELSE argv.workbook.SheetNames[1]

\* if (sheetName) this.options.sheetName = sheetName, in getPreview
previewOptions(opts, sheetName) ==
  IF Truthy(sheetName) THEN [opts EXCEPT !.sheetName = sheetName] ELSE opts

\* file-processor convert-excel <input> [--sheet s] [--all-sheets] [--output o]
RunConvertExcel(f, sheet, allSheets, output) ==
  /\ cliPc = "idle"
  /\ command' = "convert-excel"
  /\ argv' = [NoArgv EXCEPT !.path = ExcelPath, !.workbook = f, !.sheet = sheet,
                            !.allSheets = allSheets, !.output = output]
  /\ processor' = "ExcelProcessor"
  /\ options' = DefaultExcelOptions
  /\ sheetAt' = 0
  /\ cliPc' = "validate"
  /\ events' = <<>>
  /\ UNCHANGED <<options0, tasks, microtasks>>
  /\ UNCHANGED <<validatorVars, csvVars, xmlVars>>

\* const validation = processor.validateExcel(input); if (!validation.isValid) return;
\* then getSheetNames, and getAllSheets or getPreview up to its await:
\* targetSheet is options.sheet || sheetNames[0], getPreview writes it to
\* options.sheetName and runs processFile
ConvertExcelValidate ==
  /\ command = "convert-excel" /\ cliPc = "validate"
  /\ LET validation == validateExcel(argv.path, argv.workbook)
         validated == <<Event("validate", "ExcelProcessor", "")>>
         listed == Append(validated, Event("sheetNames", "ExcelProcessor", ""))
     IN IF ~validation.isValid
        THEN /\ Step("done", Append(validated, Event("error", "", "")))
             /\ UNCHANGED <<options, sheetAt>>
        ELSE IF argv.allSheets
        THEN GetAllSheetsCalled(listed)
        ELSE LET opts == previewOptions(options, targetSheet)
             IN /\ options' = opts
                /\ Step("getPreview",
                        Append(listed, Event("preview", "ExcelProcessor",
                                 processFile(opts, argv.path, argv.workbook).sheet)))
                /\ UNCHANGED sheetAt
  /\ UNCHANGED processor

\* the action goes on after await processor.getAllSheets(input): the sheets
\* are printed; with --output it awaits import('fs'), without it calls
\* getStatistics
ConvertExcelAllSheets ==
  /\ command = "convert-excel" /\ cliPc = "getAllSheets"
  /\ IF Truthy(argv.output)
     THEN Step("import", <<>>)
     ELSE Step("getStatistics", <<Event("statistics", "ExcelProcessor", "")>>)
  /\ UNCHANGED <<processor, options, sheetAt>>

\* the action goes on after await import('fs'): fs.writeFileSync of all
\* results, then getStatistics is called
ConvertExcelWrite ==
  /\ command = "convert-excel" /\ cliPc = "import"
  /\ Step("getStatistics", <<Event("write", "ExcelProcessor", "*"),
                             Event("statistics", "ExcelProcessor", "")>>)
  /\ UNCHANGED <<processor, options, sheetAt>>

\* getPreview goes on after its await: the rows are cut to the first ones
\* and its finally block deletes options.header and options.sheetName, which
\* were undefined before
ConvertExcelPreview ==
  /\ command = "convert-excel" /\ cliPc = "getPreview"
  /\ options' = [options EXCEPT !.header = UNDEFINED, !.sheetName = UNDEFINED]
  /\ Step("previewed", <<>>)
  /\ UNCHANGED <<processor, sheetAt>>

\* the action goes on after await processor.getPreview(...): its error goes
\* to the catch; else the preview is printed and convertToJSON called, which
\* runs processFile with the options as they are now
ConvertExcelConvert ==
  /\ command = "convert-excel" /\ cliPc = "previewed"
  /\ LET preview == processFile(previewOptions(options, targetSheet),
                                argv.path, argv.workbook)
     IN IF ~preview.ok
        THEN Catch
        ELSE Step("convertToJSON",
                  <<Event("convert", "ExcelProcessor",
                          processFile(options, argv.path, argv.workbook).sheet)>>)
  /\ UNCHANGED <<processor, options, sheetAt>>

\* convertToJSON goes on after its await: an error of processFile goes to the
\* catch of the action; with --output the JSON is written to the file;
\* without, the action goes on, prints the JSON and calls getStatistics
ConvertExcelConverted ==
  /\ command = "convert-excel" /\ cliPc = "convertToJSON"
  /\ LET converted == processFile(options, argv.path, argv.workbook) IN
       IF ~converted.ok
       THEN Catch
       ELSE IF Truthy(argv.output)
       THEN Step("converted", <<Event("write", "ExcelProcessor", converted.sheet)>>)
       ELSE Step("getStatistics", <<Event("print", "ExcelProcessor", converted.sheet),
                                    Event("statistics", "ExcelProcessor", "")>>)
  /\ UNCHANGED <<processor, options, sheetAt>>

\* the action goes on after await processor.convertToJSON(input, options.output):
\* the path is printed and getStatistics called
ConvertExcelStatistics ==
  /\ command = "convert-excel" /\ cliPc = "converted"
  /\ Step("getStatistics", <<Event("statistics", "ExcelProcessor", "")>>)
  /\ UNCHANGED <<processor, options, sheetAt>>

\* the action goes on after await processor.getStatistics(input): the
\* statistics are printed
ConvertExcelEnd ==
  /\ command = "convert-excel" /\ cliPc = "getStatistics"
  /\ Step("done", <<>>)
  /\ UNCHANGED <<processor, options, sheetAt>>

\* CSVProcessor.validateCSV(path).isValid when path names f: the file can
\* be read and holds a line that is not blank
validateCSVIsValid(f) ==
  /\ f.kind = "file" /\ f.readable /\ f.size > 0
  /\ \E i \in 1..Len(splitLines(bufferToString(f.data))) :
       Len(trim(splitLines(bufferToString(f.data))[i])) > 0

\* the promise of CSVProcessor.processFile on a path naming f resolves: the
\* file is there, is not empty and its stream can be read
csvProcessFileResolves(f) ==
  fsExistsSync(f) /\ f.size > 0 /\ f.kind # "dir" /\ f.readable

\* the promise of CSVProcessor.processFile on a path naming f rejects, by the
\* throw of its first lines; on a file whose stream cannot be read it does
\* neither, and the action that awaits it does not go on
csvProcessFileRejects(f) == ~fsExistsSync(f) \/ f.size = 0

\* the CSV files convert-csv is run on: none, an empty one, one of blank
\* lines, one that cannot be read, the headers alone, and two with rows
ConvertCsvFiles ==
  { Absent, RegularFile(<<>>, TRUE), RegularFile(Bytes("\n \n"), TRUE),
    RegularFile(Bytes("id,name\n1,Ann"), FALSE),
    RegularFile(Bytes("id,name"), TRUE),
    RegularFile(Bytes("id,name\n1,Ann"), TRUE),
    RegularFile(Bytes("name,age\nJohn,30\nJane,25\nBob,35\nAlice,28"), TRUE) }

\* file-processor convert-csv <input> [--output o]
RunConvertCsv(f, output) ==
  /\ cliPc = "idle"
  /\ command' = "convert-csv"
  /\ argv' = [NoArgv EXCEPT !.path = CsvPath, !.file = f, !.output = output]
  /\ processor' = "CSVProcessor"
  /\ cliPc' = "validate"
  /\ events' = <<>>
  /\ UNCHANGED <<excelVars, sheetAt, validatorVars, csvVars, xmlVars>>

\* validateCSV with the command going on whatever the validation says
ConvertCsvValidateNoReturn ==
  /\ command = "convert-csv" /\ cliPc = "validate"
  /\ Step("getPreview", <<Event("validate", "CSVProcessor", ""),
                          Event("preview", "CSVProcessor", "")>>)
  /\ UNCHANGED <<processor, options, sheetAt>>

\* const validation = processor.validateCSV(input); if (!validation.isValid) return,
\* the errors printed; else getPreview is called
ConvertCsvValidate ==
  /\ command = "convert-csv" /\ cliPc = "validate"
  /\ IF ~validateCSVIsValid(argv.file)
     THEN Step("done", <<Event("validate", "CSVProcessor", ""),
                         Event("error", "", "")>>)
     ELSE Step("getPreview", <<Event("validate", "CSVProcessor", ""),
                               Event("preview", "CSVProcessor", "")>>)
  /\ UNCHANGED <<processor, options, sheetAt>>

\* the action goes on after await processor.getPreview(input, previewRows):
\* the preview is printed and convertToJSON called
ConvertCsvPreview ==
  /\ command = "convert-csv" /\ cliPc = "getPreview"
  /\ csvProcessFileResolves(argv.file) \/ csvProcessFileRejects(argv.file)
  /\ IF csvProcessFileRejects(argv.file)
     THEN Catch
     ELSE Step("convertToJSON", <<Event("convert", "CSVProcessor", "")>>)
  /\ UNCHANGED <<processor, options, sheetAt>>

\* convertToJSON goes on after its await: with --output the JSON is written
\* to the file; without, the action goes on, prints the JSON and calls
\* getStatistics
ConvertCsvConvert ==
  /\ command = "convert-csv" /\ cliPc = "convertToJSON"
  /\ csvProcessFileResolves(argv.file) \/ csvProcessFileRejects(argv.file)
  /\ IF csvProcessFileRejects(argv.file)
     THEN Catch
     ELSE IF Truthy(argv.output)
     THEN Step("converted", <<Event("write", "CSVProcessor", "")>>)
     ELSE Step("getStatistics", <<Event("print", "CSVProcessor", ""),
                                  Event("statistics", "CSVProcessor", "")>>)
  /\ UNCHANGED <<processor, options, sheetAt>>

\* the action goes on after await processor.convertToJSON(input, options.output):
\* the path is printed and getStatistics called
ConvertCsvStatistics ==
  /\ command = "convert-csv" /\ cliPc = "converted"
  /\ Step("getStatistics", <<Event("statistics", "CSVProcessor", "")>>)
  /\ UNCHANGED <<processor, options, sheetAt>>

\* the action goes on after await processor.getStatistics(input): the
\* statistics are printed
ConvertCsvEnd ==
  /\ command = "convert-csv" /\ cliPc = "getStatistics"
  /\ csvProcessFileResolves(argv.file) \/ csvProcessFileRejects(argv.file)
  /\ IF csvProcessFileRejects(argv.file) THEN Catch ELSE Step("done", <<>>)
  /\ UNCHANGED <<processor, options, sheetAt>>

\* XmlProcessor.validateXml(path).isValid when path names f and xml2js
\* parses its content or not
validateXmlIsValid(f, parses) ==
  /\ f.kind = "file" /\ f.readable /\ f.size > 0
  /\ startsWith(trim(bufferToString(f.data)), Bytes("<"))
  /\ parses

\* file-processor convert-xml <input> [--output o]; xml2js parses only what
\* begins with a tag
RunConvertXml(f, parses, output) ==
  /\ cliPc = "idle"
  /\ parses => f.kind = "file" /\ f.readable
                 /\ startsWith(trim(bufferToString(f.data)), Bytes("<"))
  /\ command' = "convert-xml"
  /\ argv' = [NoArgv EXCEPT !.path = XmlPath, !.file = f, !.parses = parses,
                            !.output = output]
  /\ processor' = "XmlProcessor"
  /\ cliPc' = "validate"
  /\ events' = <<>>
  /\ UNCHANGED <<excelVars, sheetAt, validatorVars, csvVars, xmlVars>>

\* const validation = processor.validateXml(input); if (!validation.isValid) return,
\* the errors printed; else getPreview is called
ConvertXmlValidate ==
  /\ command = "convert-xml" /\ cliPc = "validate"
  /\ IF ~validateXmlIsValid(argv.file, argv.parses)
     THEN Step("done", <<Event("validate", "XmlProcessor", ""),
                         Event("error", "", "")>>)
     ELSE Step("getPreview", <<Event("validate", "XmlProcessor", ""),
                               Event("preview", "XmlProcessor", "")>>)
  /\ UNCHANGED <<processor, options, sheetAt>>

\* the action goes on after await processor.getPreview(input, maxDepth): the
\* preview is printed and convertToJSON called; processFile parses what
\* validateXml has parsed
ConvertXmlPreview ==
  /\ command = "convert-xml" /\ cliPc = "getPreview"
  /\ IF ~argv.parses
     THEN Catch
     ELSE Step("convertToJSON", <<Event("convert", "XmlProcessor", "")>>)
  /\ UNCHANGED <<processor, options, sheetAt>>

\* convertToJSON goes on after its await: with --output the JSON is written
\* to the file; without, the action goes on, prints the JSON and calls
\* getStatistics
ConvertXmlConvert ==
  /\ command = "convert-xml" /\ cliPc = "convertToJSON"
  /\ IF ~argv.parses
     THEN Catch
     ELSE IF Truthy(argv.output)
     THEN Step("converted", <<Event("write", "XmlProcessor", "")>>)
     ELSE Step("getStatistics", <<Event("print", "XmlProcessor", ""),
                                  Event("statistics", "XmlProcessor", "")>>)
  /\ UNCHANGED <<processor, options, sheetAt>>

\* the action goes on after await processor.convertToJSON(input, options.output):
\* the path is printed and getStatistics called
ConvertXmlStatistics ==
  /\ command = "convert-xml" /\ cliPc = "converted"
  /\ Step("getStatistics", <<Event("statistics", "XmlProcessor", "")>>)
  /\ UNCHANGED <<processor, options, sheetAt>>

\* the action goes on after await processor.getStatistics(input): the
\* statistics are printed
ConvertXmlEnd ==
  /\ command = "convert-xml" /\ cliPc = "getStatistics"
  /\ IF ~argv.parses THEN Catch ELSE Step("done", <<>>)
  /\ UNCHANGED <<processor, options, sheetAt>>

\* the branch the switch on validation.fileType with this swap takes: XML
\* files go to the CSV case
caseOfXmlAsCsv(fileType) == IF fileType = XML THEN CSV ELSE fileType

\* the case the switch on validation.fileType takes
caseOf(fileType) ==
  IF fileType \in {CSV, EXCEL, XML} THEN fileType ELSE "default"

\* file-processor process <file> [--sheet s] [--all-sheets] [--output o];
\* the path names f, which XLSX.readFile turns into the workbook wb and which
\* xml2js parses or not
RunProcess(p, f, wb, parses, sheet, allSheets, output) ==
  /\ cliPc = "idle"
  /\ (f.kind = "file" /\ f.readable /\ f.size > 0) \/ (wb = CorruptWorkbook /\ ~parses)
  /\ command' = "process"
  /\ argv' = [path |-> p, file |-> f, workbook |-> wb, parses |-> parses,
              sheet |-> sheet, allSheets |-> allSheets, output |-> output]
  /\ processor' = "none"
  /\ cliPc' = "validate"
  /\ events' = <<>>
  /\ UNCHANGED <<excelVars, sheetAt, validatorVars, csvVars, xmlVars>>

\* const validation = FileValidator.validateFile(file); if (!validation.isValid) return;
\* then the switch on validation.fileType
ProcessValidate ==
  /\ command = "process" /\ cliPc = "validate"
  /\ \E validation \in {validateFileOf(argv.path, argv.file)} :
       IF ~validation.isValid
       THEN Step("done", <<Event("validate", "FileValidator", ""),
                           Event("error", "", "")>>)
       ELSE Step(caseOf(validation.fileType), <<Event("validate", "FileValidator", "")>>)
  /\ UNCHANGED <<processor, options, sheetAt>>

\* case FileType.CSV: new CSVProcessor(), validateCSV with its return, and
\* getStatistics called
ProcessCsv ==
  /\ command = "process" /\ cliPc = CSV
  /\ processor' = "CSVProcessor"
  /\ IF ~validateCSVIsValid(argv.file)
     THEN Step("done", <<Event("validate", "CSVProcessor", ""),
                         Event("error", "", "")>>)
     ELSE Step("getStatistics", <<Event("validate", "CSVProcessor", ""),
                                  Event("statistics", "CSVProcessor", "")>>)
  /\ UNCHANGED <<options, sheetAt>>

\* the action goes on after await processor.getStatistics(file): the
\* statistics are printed and convertToJSON called
ProcessCsvConvert ==
  /\ command = "process" /\ processor = "CSVProcessor" /\ cliPc = "getStatistics"
  /\ csvProcessFileResolves(argv.file) \/ csvProcessFileRejects(argv.file)
  /\ IF csvProcessFileRejects(argv.file)
     THEN Catch
     ELSE Step("convertToJSON", <<Event("convert", "CSVProcessor", "")>>)
  /\ UNCHANGED <<processor, options, sheetAt>>

\* convertToJSON of the CSVProcessor goes on after its await: with --output
\* the JSON is written to the file; without, the action goes on and ends
ProcessCsvConverted ==
  /\ command = "process" /\ processor = "CSVProcessor" /\ cliPc = "convertToJSON"
  /\ csvProcessFileResolves(argv.file) \/ csvProcessFileRejects(argv.file)
  /\ IF csvProcessFileRejects(argv.file)
     THEN Catch
     ELSE IF Truthy(argv.output)
     THEN Step("converted", <<Event("write", "CSVProcessor", "")>>)
     ELSE Step("done", <<>>)
  /\ UNCHANGED <<processor, options, sheetAt>>

\* case FileType.EXCEL: new ExcelProcessor() and getStatistics called;
\* --sheet is not read
ProcessExcel ==
  /\ command = "process" /\ cliPc = EXCEL
  /\ processor' = "ExcelProcessor"
  /\ options' = DefaultExcelOptions
  /\ sheetAt' = 0
  /\ Step("getStatistics", <<Event("statistics", "ExcelProcessor", "")>>)

\* the action goes on after await processor.getStatistics(file): the error
\* of XLSX.readFile goes to the catch; else getAllSheets or convertToJSON is
\* called, which runs processFile
ProcessExcelConvert ==
  /\ command = "process" /\ processor = "ExcelProcessor" /\ cliPc = "getStatistics"
  /\ IF argv.workbook.kind # "workbook"
     THEN Catch /\ UNCHANGED <<options, sheetAt>>
     ELSE IF argv.allSheets
     THEN GetAllSheetsCalled(<<>>)
     ELSE /\ Step("convertToJSON",
                  <<Event("convert", "ExcelProcessor",
                          processFile(options, argv.path, argv.workbook).sheet)>>)
          /\ UNCHANGED <<options, sheetAt>>
  /\ UNCHANGED processor

\* the action goes on after await processor.getAllSheets(file): with
\* --output it awaits import('fs'), without it ends
ProcessExcelAllSheets ==
  /\ command = "process" /\ cliPc = "getAllSheets"
  /\ IF Truthy(argv.output) THEN Step("import", <<>>) ELSE Step("done", <<>>)
  /\ UNCHANGED <<processor, options, sheetAt>>

\* the action goes on after await import('fs'): fs.writeFileSync of all
\* results, and the action ends
ProcessExcelWrite ==
  /\ command = "process" /\ cliPc = "import"
  /\ Step("done", <<Event("write", "ExcelProcessor", "*")>>)
  /\ UNCHANGED <<processor, options, sheetAt>>

\* convertToJSON of the ExcelProcessor goes on after its await: with --output
\* the JSON is written to the file; without, the action goes on and ends
ProcessExcelConverted ==
  /\ command = "process" /\ processor = "ExcelProcessor" /\ cliPc = "convertToJSON"
  /\ LET converted == processFile(options, argv.path, argv.workbook) IN
       IF ~converted.ok
       THEN Catch
       ELSE IF Truthy(argv.output)
       THEN Step("converted", <<Event("write", "ExcelProcessor", converted.sheet)>>)
       ELSE Step("done", <<>>)
  /\ UNCHANGED <<processor, options, sheetAt>>

\* case FileType.XML: new XmlProcessor() and getStatistics called
ProcessXml ==
  /\ command = "process" /\ cliPc = XML
  /\ processor' = "XmlProcessor"
  /\ Step("getStatistics", <<Event("statistics", "XmlProcessor", "")>>)
  /\ UNCHANGED <<options, sheetAt>>

\* the action goes on after await processor.getStatistics(file): the error
\* of the parser goes to the catch; else convertToJSON is called
ProcessXmlConvert ==
  /\ command = "process" /\ processor = "XmlProcessor" /\ cliPc = "getStatistics"
  /\ IF ~argv.parses
     THEN Catch
     ELSE Step("convertToJSON", <<Event("convert", "XmlProcessor", "")>>)
  /\ UNCHANGED <<processor, options, sheetAt>>

\* convertToJSON of the XmlProcessor goes on after its await: with --output
\* the JSON is written to the file; without, the action goes on and ends
ProcessXmlConverted ==
  /\ command = "process" /\ processor = "XmlProcessor" /\ cliPc = "convertToJSON"
  /\ IF ~argv.parses
     THEN Catch
     ELSE IF Truthy(argv.output)
     THEN Step("converted", <<Event("write", "XmlProcessor", "")>>)
     ELSE Step("done", <<>>)
  /\ UNCHANGED <<processor, options, sheetAt>>

\* the action goes on after await processor.convertToJSON(file, options.output):
\* the path and the time are printed
ProcessEnd ==
  /\ command = "process" /\ cliPc = "converted"
  /\ Step("done", <<>>)
  /\ UNCHANGED <<processor, options, sheetAt>>

\* the workbooks convert-excel is run on, and those process is run on
CliWorkbooks ==
  {NoWorkbook, EmptyWorkbookFile, CorruptWorkbook, Workbook(<<>>),
   Workbook(<<"Sheet1", "Sheet2">>)}
ProcessWorkbooks == {CorruptWorkbook, Workbook(<<"Sheet1", "Sheet2">>)}

\* the paths process is run on
ProcessPaths ==
  {"report.csv", "notes.txt", "book.xlsx", "test.xml", "ambiguous.unknown", "readme"}

NextCli ==
  \/ \E f \in CliWorkbooks, sheet \in SheetOptions, allSheets \in BOOLEAN,
         output \in OutputOptions : RunConvertExcel(f, sheet, allSheets, output)
  \/ ConvertExcelValidate
  \/ ProcessSheetSettles
  \/ GetAllSheetsNext
  \/ ConvertExcelAllSheets
  \/ ConvertExcelWrite
  \/ ConvertExcelPreview
  \/ ConvertExcelConvert
  \/ ConvertExcelConverted
  \/ ConvertExcelStatistics
  \/ ConvertExcelEnd
  \/ \E f \in ConvertCsvFiles, output \in OutputOptions : RunConvertCsv(f, output)
  \/ ConvertCsvValidate
  \/ ConvertCsvPreview
  \/ ConvertCsvConvert
  \/ ConvertCsvStatistics
  \/ ConvertCsvEnd
  \/ \E f \in FileStates, parses \in BOOLEAN, output \in OutputOptions :
       RunConvertXml(f, parses, output)
  \/ ConvertXmlValidate
  \/ ConvertXmlPreview
  \/ ConvertXmlConvert
  \/ ConvertXmlStatistics
  \/ ConvertXmlEnd
  \/ \E p \in ProcessPaths, f \in FileStates, wb \in ProcessWorkbooks, parses \in BOOLEAN,
         sheet \in SheetOptions, allSheets \in BOOLEAN, output \in OutputOptions :
       RunProcess(p, f, wb, parses, sheet, allSheets, output)
  \/ ProcessValidate
  \/ ProcessCsv
  \/ ProcessCsvConvert
  \/ ProcessCsvConverted
  \/ ProcessExcel
  \/ ProcessExcelConvert
  \/ ProcessExcelAllSheets
  \/ ProcessExcelWrite
  \/ ProcessExcelConverted
  \/ ProcessXml
  \/ ProcessXmlConvert
  \/ ProcessXmlConverted
  \/ ProcessEnd

SpecCli == Init /\ [][NextCli]_vars

-----------------------------------------------------------------------------
(* Properties *)

Has(seq, x) == \E i \in 1..Len(seq) : seq[i] = x

\* a direct detectFileType call has returned its result
DetectReturned == op = "detectFileType" /\ pc = "done" /\ outcome = "returned"

\* a validateFile call has returned its result
ValidateReturned == op = "validateFile" /\ pc = "done" /\ outcome = "returned"

\* a direct detectFileType call has returned after combining the scores
Scored == DetectReturned /\ ~Has(failed, "d_stat")

\* the largest element of a non-empty finite set of numbers
Largest(S) == CHOOSE x \in S : \A y \in S : y <= x

\* the three combined scores of the call that has returned
Combined == combinedScore(filePath, contentSample)

\* the reasons hold one that reports a failure
HasFailureReason(reasons) ==
  \E i \in 1..Len(reasons) :
    \/ startsWith(reasons[i], "Content analysis failed: ")
    \/ startsWith(reasons[i], "Detection error: ")

\* C1: whenever detectFileType returns after combining the scores, its
\* confidence is min(1, maxScore / 3), maxScore being the largest of the three
\* combined scores; every confidence it returns lies in [0, 1].
C1_ConfidenceIsMaxScoreOverThree ==
  /\ Scored =>
       detection.confidence30
         = Min(30, Largest({Combined.csv, Combined.excel, Combined.xml}))
  /\ DetectReturned => detection.confidence30 >= 0 /\ detection.confidence30 <= 30

\* a call returned the highest confidence there is, 2.3 / 3
C1_Witness == Scored /\ detection.confidence30 = 23

\* C2: whenever two or three types share the maximal combined score and it is
\* positive, the detected type is the first of them in the order CSV, EXCEL,
\* XML.
C2_TieOrder ==
  LET m == Largest({Combined.csv, Combined.excel, Combined.xml})
      tied == {t \in FileType : Combined[t] = m}
  IN (Scored /\ m > 0 /\ Cardinality(tied) >= 2) =>
       detection.detectedType
         = (IF CSV \in tied THEN CSV ELSE IF EXCEL \in tied THEN EXCEL ELSE XML)

\* EXCEL and XML tie at one point each, above CSV, and EXCEL is returned
C2_Witness ==
  /\ Scored
  /\ Combined.excel = 10 /\ Combined.xml = 10 /\ Combined.csv < 10
  /\ detection.detectedType = EXCEL

\* C3: in every result validateFile returns, isValid is true exactly when the
\* errors list is empty.
C3_ValidIffNoErrors ==
  ValidateReturned => (result.isValid <=> result.errors = <<>>)

\* validateFile returned through its catch clause
C3_Witness ==
  /\ ValidateReturned
  /\ Has(failed, "v_stat")
  /\ ~result.isValid
  /\ Len(result.errors) = 1

\* the sample holds an opening tag: "<", a character other than "/" and ">",
\* then any characters other than ">", then ">"
HasOpeningTag(s) ==
  \E i \in 1..Len(s), j \in 1..Len(s) :
    /\ s[i] = 60 /\ j >= i + 2 /\ s[j] = 62
    /\ s[i + 1] \notin {47, 62}
    /\ \A k \in (i + 1)..(j - 1) : s[k] # 62

\* the sample holds a closing tag: "</", one or more characters other than
\* ">", then ">"
HasClosingTag(s) ==
  \E i \in 1..Len(s), j \in 1..Len(s) :
    /\ s[i] = 60 /\ j >= i + 3 /\ s[j] = 62
    /\ s[i + 1] = 47
    /\ \A k \in (i + 2)..(j - 1) : s[k] # 62

\* the sample, trimmed, starts with "<?xml" and holds an opening and a closing tag
XmlDocumentSample(s) ==
  /\ startsWith(trim(s), Bytes("<?xml"))
  /\ HasOpeningTag(s)
  /\ HasClosingTag(s)

\* C4: for every file whose content sample, trimmed, starts with "<?xml" and
\* holds an opening and a closing tag, the XML content score is 1 and
\* detectFileType returns XML with confidence at least 1/3, whatever the
\* extension and the base name are.
C4_XmlContentDetectedAsXml ==
  (DetectReturned /\ ~touched /\ XmlDocumentSample(contentSample)) =>
    /\ scoreByContent(contentSample).xml = 10
    /\ detection.detectedType = XML
    /\ detection.confidence30 >= 10

\* the extension of the path is in the CSV set
CsvExtension == extensionOf(filePath) \in {".csv", ".tsv", ".txt"}

\* the lower-cased base name, extension included, holds a CSV keyword
CsvKeywordInName ==
  \/ includes(fileNameOf(filePath), "csv")
  \/ includes(fileNameOf(filePath), "data")
  \/ includes(fileNameOf(filePath), "export")

\* C5 as claimed: for every file with an extension of the CSV set and no
\* content sample, detectFileType returns CSV with confidence exactly 1/3,
\* with the reason "File extension matches CSV" and no content-based and no
\* filename-based reason.
C5_Original ==
  (DetectReturned /\ CsvExtension /\ contentSample = <<>>) =>
    /\ detection.detectedType = CSV
    /\ detection.confidence30 = 10
    /\ Has(detection.reasons, "File extension matches CSV")
    /\ ~Has(detection.reasons, "File content matches CSV format")
    /\ ~Has(detection.reasons, "Filename suggests CSV format")

\* C5 amended: for every file with an extension of the CSV set and no
\* content sample, detectFileType returns CSV with the reason "File extension
\* matches CSV" and no content-based reason; the confidence is exactly 1/3
\* with no filename-based reason when the base name, extension included,
\* holds none of "csv", "data", "export", and 1.3/3 with the reason "Filename
\* suggests CSV format" when it holds one.  The one exception is the call
\* whose fs.statSync fails: it returns no type, confidence 0 and the one
\* reason "Detection error: ...".
C5_CsvExtensionWithoutSample ==
  (DetectReturned /\ CsvExtension /\ contentSample = <<>>) =>
    IF Has(failed, "d_stat")
    THEN /\ detection.detectedType = NULL
         /\ detection.confidence30 = 0
         /\ detection.reasons = <<"Detection error: " \o ENOENT("stat", filePath)>>
    ELSE /\ detection.detectedType = CSV
         /\ Has(detection.reasons, "File extension matches CSV")
         /\ ~Has(detection.reasons, "File content matches CSV format")
         /\ ~CsvKeywordInName =>
              /\ detection.confidence30 = 10
              /\ ~Has(detection.reasons, "Filename suggests CSV format")
         /\ CsvKeywordInName =>
              /\ detection.confidence30 = 13
              /\ Has(detection.reasons, "Filename suggests CSV format")

\* a file with a CSV extension and no keyword could not be opened
C5_Witness ==
  /\ DetectReturned /\ CsvExtension /\ contentSample = <<>>
  /\ ~CsvKeywordInName
  /\ Has(failed, "d_open")
  /\ detection.confidence30 = 10

\* C6: whenever the content sample of an existing path cannot be obtained
\* (sizing, opening or reading the file fails), detectFileType appends a
\* failure reason, continues with an empty sample, and returns the type and
\* confidence the extension and filename scores give.
C6_SampleFailureDegrades ==
  ( /\ DetectReturned /\ fsExistsSync(file0)
    /\ \E s \in {"d_stat", "d_open", "d_read"} : Has(failed, s) ) =>
    /\ HasFailureReason(detection.reasons)
    /\ contentSample = <<>>
    /\ detection.detectedType = scoreResult(filePath, <<>>, <<>>).detectedType
    /\ detection.confidence30 = scoreResult(filePath, <<>>, <<>>).confidence30

\* the system calls of detectFileType that can fail: fs.statSync,
\* fs.openSync, fs.readSync and fs.closeSync
DetectSystemCalls == {"d_stat", "d_open", "d_read", "d_close"}

\* C7: detectFileType and validateFile never raise, whichever of their
\* system calls fail and wherever a file is removed or made unreadable
\* between two of them; a failing system call of detectFileType is recorded
\* as a reason of the detection, a failing system call of validateFile as a
\* "Validation error: ..." entry, the last of the errors, with isValid false.
C7_NeverRaises ==
  /\ outcome # "raised"
  /\ (pc \in {"done", "v_finish"} /\ (\E s \in DetectSystemCalls : Has(failed, s))) =>
       HasFailureReason(detection.reasons)
  /\ (pc = "done" /\ Has(failed, "v_stat")) =>
       /\ ~result.isValid
       /\ result.errors # <<>>
       /\ startsWith(result.errors[Len(result.errors)], "Validation error: ")

\* a direct detectFileType call returned although reading the file failed
\* and closing it failed after that: the reason names the error of the close
C7_Witness ==
  /\ DetectReturned
  /\ failed = <<"d_read", "d_close">>
  /\ Has(detection.reasons, "Content analysis failed: " \o EIO("close"))

ReportCsvCall ==
  /\ DetectReturned /\ ~touched
  /\ basename(filePath) = "report.csv"
  /\ file0 = RegularFile(Bytes("name,age\nJohn,30\nJane,25"), TRUE)

\* C9 as claimed: for report.csv the CSV scores are 1 (extension), 1 (content)
\* and 0 (filename), combined 2, type CSV, confidence 2/3, with the three
\* reasons among the reasons.
C9_Original ==
  ReportCsvCall =>
    /\ scoreByExtension(extensionOf(filePath)).csv = 10
    /\ scoreByContent(contentSample).csv = 10
    /\ scoreByFilename(fileNameOf(filePath)).csv = 0
    /\ Combined.csv = 20
    /\ detection.detectedType = CSV
    /\ detection.confidence30 = 20
    /\ Has(detection.reasons, "CSV indicators found")
    /\ Has(detection.reasons, "File extension matches CSV")
    /\ Has(detection.reasons, "File content matches CSV format")

\* C9 amended: for report.csv the CSV scores are 1 (extension), 1 (content)
\* and 0.3 (filename: the base name "report.csv" holds "csv"), combined 2.3,
\* type CSV, confidence 2.3/3; the reasons are "CSV indicators found", "File
\* extension matches CSV", "File content matches CSV format" and "Filename
\* suggests CSV format".
C9_ReportCsv ==
  ReportCsvCall =>
    /\ scoreByExtension(extensionOf(filePath)).csv = 10
    /\ scoreByContent(contentSample).csv = 10
    /\ scoreByFilename(fileNameOf(filePath)).csv = 3
    /\ Combined.csv = 23
    /\ detection.detectedType = CSV
    /\ detection.confidence30 = 23
    /\ detection.reasons = << "CSV indicators found",
                              "File extension matches CSV",
                              "File content matches CSV format",
                              "Filename suggests CSV format" >>

\* detectFileType returned for report.csv
C9_Witness == ReportCsvCall /\ detection.detectedType = CSV

\* every line of the bytes holds a comma, a semicolon, a tab or a pipe, and
\* the bytes start neither like a tag nor like a ZIP or OLE file
SeparatorDelimited(data) ==
  /\ data # <<>>
  /\ \A i \in 1..Len(splitLines(data)) :
       \E j \in 1..Len(splitLines(data)[i]) :
         splitLines(data)[i][j] \in {44, 59, 9, 124}
  /\ ~startsWith(trim(data), <<60>>)
  /\ ~startsWith(data, <<80, 75>>)
  /\ ~startsWith(data, <<208, 207, 17, 224>>)

\* the call is on an undisturbed readable file of separator-delimited lines
\* whose extension is not recognized and whose name holds no keyword
AmbiguousCall ==
  /\ pc = "done" /\ ~touched
  /\ scoreByExtension(extensionOf(filePath)) = NoScore
  /\ \A k \in {"csv", "data", "export", "xlsx", "xls", "spreadsheet", "workbook",
               "xml", "config", "feed", "rss"} : ~includes(fileNameOf(filePath), k)
  /\ file0.kind = "file" /\ file0.readable
  /\ SeparatorDelimited(file0.data)

\* C10: for a file with an unrecognized extension and no filename keyword
\* whose content is separator-delimited lines, detectFileType returns CSV
\* with combined score 1 and confidence 1/3, and validateFile is valid with
\* type CSV and carries the two low-confidence warnings.
C10_AmbiguousFile ==
  AmbiguousCall =>
    /\ outcome = "returned"
    /\ Combined.csv = 10
    /\ detection.detectedType = CSV
    /\ detection.confidence30 = 10
    /\ op = "validateFile" =>
         /\ result.isValid
         /\ result.errors = <<>>
         /\ result.fileType = CSV
         /\ result.warnings =
              << "File type detection confidence is low (33.3%)",
                 "Detection reasons: CSV indicators found, File content matches CSV format" >>

\* validateFile returned for ambiguous.unknown holding some,data / other,info
C10_Witness ==
  /\ AmbiguousCall
  /\ op = "validateFile"
  /\ filePath = "ambiguous.unknown"
  /\ file0.data = Bytes("some,data\nother,info")
  /\ Len(result.warnings) = 2

\* the result of a validateFile call that ended at one of its two early
\* returns with the one error e
ShortCircuitResult(e, extension) ==
  [isValid |-> FALSE, fileType |-> NULL, errors |-> <<e>>, warnings |-> <<>>,
   fileInfo |-> [path |-> filePath, size |-> 0, extension |-> extension]]

\* C11: when the path does not exist at the existence check, or the file has
\* size 0 at the size query, validateFile returns at that step, before
\* detectFileType is invoked and with no file opened or read; the result has
\* isValid false, no type, no warnings and exactly one error: "File not
\* found: {path}" with size 0 and an empty extension, or "File is empty".
C11_ShortCircuitBeforeDetection ==
  [][ /\ (op = "validateFile" /\ pc = "v_exists" /\ ~fsExistsSync(file)) =>
           /\ pc' = "done" /\ outcome' = "returned"
           /\ result' = ShortCircuitResult("File not found: " \o filePath, "")
           /\ detection' = NoDetection /\ fd' = Closed /\ contentSample' = <<>>
      /\ (op = "validateFile" /\ pc = "v_stat" /\ pc' # "v_stat"
             /\ file.kind = "file" /\ file.size = 0) =>
           /\ pc' = "done" /\ outcome' = "returned"
           /\ result' = ShortCircuitResult("File is empty", extensionOf(filePath))
           /\ detection' = NoDetection /\ fd' = Closed /\ contentSample' = <<>>
    ]_vars

\* validateFile returned at one of its early returns: for a missing path, or
\* for an empty file
C11_Witness ==
  /\ ValidateReturned /\ ~touched
  /\ \/ ~fsExistsSync(file0) /\ result.errors = <<"File not found: " \o filePath>>
     \/ file0.kind = "file" /\ file0.size = 0 /\ result.errors = <<"File is empty">>

\* validateFile returned after it found the file and found it non-empty: it
\* has called detectFileType and gone through its warnings and its type check
Validated == ValidateReturned /\ result.fileInfo.size > 0

\* C12: for every existing non-empty file, validateFile appends the two
\* low-confidence warnings, the percentage notice and then the "Detection
\* reasons: ..." list, exactly when the detection confidence is below 0.7;
\* low confidence by itself adds no error and leaves isValid true: with a
\* detected type the result is valid and without errors whatever the
\* confidence is.
C12_LowConfidenceWarnsOnly ==
  Validated =>
    /\ detection.confidence30 < 21 =>
         /\ Len(result.warnings) >= 2
         /\ result.warnings[1] =
              "File type detection confidence is low ("
                \o percentFixed1(detection.confidence30) \o "%)"
         /\ result.warnings[2] = "Detection reasons: " \o join(detection.reasons)
    /\ detection.confidence30 >= 21 =>
         \A i \in 1..Len(result.warnings) :
           /\ ~startsWith(result.warnings[i], "File type detection confidence is low")
           /\ ~startsWith(result.warnings[i], "Detection reasons:")
    /\ detection.detectedType # NULL => result.isValid /\ result.errors = <<>>

\* a file detected as XML with a confidence below 0.7 is valid and carries
\* the two warnings
C12_Witness ==
  /\ Validated /\ ~touched
  /\ detection.detectedType = XML
  /\ detection.confidence30 < 21
  /\ result.isValid
  /\ Len(result.warnings) = 2

\* C13: validateFile appends the large-file warning exactly when the file
\* size is strictly greater than 100*1024*1024 bytes: a file of exactly
\* 104857600 bytes gets none, one of 104857601 bytes gets it; the warning
\* does not affect isValid, which is true exactly when a type was detected.
C13_LargeFileWarning ==
  /\ Validated =>
       /\ Has(result.warnings, "File is very large (>100MB), processing might be slow")
            <=> result.fileInfo.size > 104857600
       /\ result.isValid <=> detection.detectedType # NULL
  /\ (ValidateReturned /\ ~Validated) =>
       ~Has(result.warnings, "File is very large (>100MB), processing might be slow")

\* a file of 104857601 bytes is valid and carries the large-file warning
C13_Witness ==
  /\ Validated /\ ~touched
  /\ file0.size = 104857601
  /\ result.fileInfo.size = 104857601
  /\ result.isValid
  /\ Has(result.warnings, "File is very large (>100MB), processing might be slow")

\* C14: for every existing non-empty file on which detection yields no type,
\* validateFile appends the error "Unable to determine file type. Supported
\* types: CSV, Excel (.xlsx, .xls), XML" and returns isValid false; every
\* result with isValid true has a fileType among CSV, EXCEL and XML.
C14_NoTypeIsAnError ==
  /\ (Validated /\ detection.detectedType = NULL) =>
       /\ ~result.isValid
       /\ result.fileType = NULL
       /\ result.errors =
            <<"Unable to determine file type. Supported types: CSV, Excel (.xlsx, .xls), XML">>
  /\ (ValidateReturned /\ result.isValid) => result.fileType \in FileType

\* an undisturbed readable file was read and no type was detected
C14_Witness ==
  /\ Validated /\ ~touched
  /\ contentSample # <<>>
  /\ detection.detectedType = NULL
  /\ ~result.isValid

\* a call of validateFile, or of a method that starts with one, has ended
\* and the file did not change during it
UndisturbedValidation == pc = "done" /\ op \in ValidatingMethods /\ ~touched

\* C15: on a path whose file does not change, validateFile, getProcessorForFile
\* and isFileTypeSupported work on the same validation; getProcessorForFile
\* returns a name exactly when isFileTypeSupported returns true, exactly when
\* validateFile is valid with a type; the name is "CSVProcessor" for CSV,
\* "ExcelProcessor" for EXCEL and "XmlProcessor" for XML, and null for a
\* missing, an empty and an undetected file.
C15_ProcessorIffSupported ==
  UndisturbedValidation =>
    LET v == validateFileOf(filePath, file0)
        name == getProcessorForFile(result)
        supported == isFileTypeSupported(result)
    IN /\ outcome = "returned"
       /\ result = v
       /\ name # NULL <=> supported
       /\ supported <=> (v.isValid /\ v.fileType # NULL)
       /\ (v.isValid /\ v.fileType = CSV) => name = "CSVProcessor"
       /\ (v.isValid /\ v.fileType = EXCEL) => name = "ExcelProcessor"
       /\ (v.isValid /\ v.fileType = XML) => name = "XmlProcessor"
       /\ ( \/ ~fsExistsSync(file0)
            \/ file0.size = 0
            \/ detectFileTypeOf(filePath, file0).detectedType = NULL ) =>
            name = NULL /\ ~supported

\* getProcessorForFile has returned "XmlProcessor"
C15_Witness ==
  /\ UndisturbedValidation
  /\ op = "getProcessorForFile"
  /\ getProcessorForFile(result) = "XmlProcessor"

\* the reasons the inner catch of detectFileType has left in a call that went
\* on to the scoring: one if taking the sample failed, at whichever of the
\* open, the read and the close, since the error of a failing close replaces
\* that of the read
SampleFailureReasons == IF failed = <<>> THEN 0 ELSE 1

\* C16: detectFileType returns no type exactly when its confidence is 0, and
\* whenever all three combined scores are 0; a call that has combined the
\* scores returns no type only when all three are 0, and its reasons are then
\* only the content-sample failure reasons, none if the sample was taken.
C16_NoTypeIffNoScore ==
  /\ DetectReturned =>
       /\ detection.detectedType = NULL <=> detection.confidence30 = 0
       /\ Combined = NoScore => detection.detectedType = NULL
  /\ Scored =>
       /\ detection.detectedType = NULL <=> Combined = NoScore
       /\ detection.detectedType = NULL =>
            /\ \A i \in 1..Len(detection.reasons) :
                 startsWith(detection.reasons[i], "Content analysis failed: ")
            /\ Len(detection.reasons) = SampleFailureReasons
            /\ failed = <<>> => detection.reasons = <<>>

\* no type was detected for a file that could not be opened: the one reason
\* is the failure to take the sample
C16_Witness ==
  /\ Scored
  /\ Combined = NoScore
  /\ detection.detectedType = NULL
  /\ failed = <<"d_open">>
  /\ Len(detection.reasons) = 1

\* the caller has not called setOptions since the first call started
NoSetOptionsSince == \A t \in 1..Len(tasks) : tasks[t].method # "setOptions"

\* C17: once every processSheet and getPreview call made on one
\* ExcelProcessor has completed, however the calls were interleaved and
\* whether they succeeded or threw, options.sheetName and options.header are
\* what they were before the first call started.
C17_OptionsRestored ==
  (tasks # <<>> /\ microtasks = <<>> /\ NoSetOptionsSince) =>
    /\ options.sheetName = options0.sheetName
    /\ options.header = options0.header

\* the action of convert-excel or process has converted one sheet of the
\* workbook, without --all-sheets
ConvertedOneSheet(i) ==
  /\ command \in {"convert-excel", "process"}
  /\ ~argv.allSheets
  /\ i \in 1..Len(events)
  /\ events[i].kind = "convert"
  /\ events[i].processor = "ExcelProcessor"

\* C18: in convert-excel and process without --all-sheets, the sheet whose
\* rows are converted to JSON, and written or printed, is the sheet given
\* with --sheet, the sheet the preview shows; without --sheet it is the first
\* sheet of the workbook.
C18_ConvertsTheSheetAsked ==
  \A i \in 1..Len(events) :
    ConvertedOneSheet(i) =>
      /\ events[i].sheet = IF Truthy(argv.sheet) THEN argv.sheet
                           ELSE argv.workbook.SheetNames[1]
      /\ \A j \in 1..Len(events) :
           events[j].kind \in {"preview", "write", "print"} =>
             events[j].sheet = events[i].sheet

\* the classes whose methods the process command calls on the file
Processors == {"CSVProcessor", "ExcelProcessor", "XmlProcessor"}

\* the processor class of a file type
ProcessorOf(fileType) ==
  IF fileType = CSV THEN "CSVProcessor"
  ELSE IF fileType = EXCEL THEN "ExcelProcessor"
  ELSE IF fileType = XML THEN "XmlProcessor"
  ELSE "none"

\* the processor classes the command has called so far
Invoked == {events[i].processor : i \in 1..Len(events)} \cap Processors

\* the command has written an output file
Wrote == \E i \in 1..Len(events) : events[i].kind = "write"

\* C19: the process command calls methods of no processor but the one that
\* matches the fileType validateFile returned for the file, and has called it
\* when the action ends; when validateFile returned isValid = false it calls
\* no processor and writes no output.
C19_ProcessDispatch ==
  command = "process" =>
    LET validation == validateFileOf(argv.path, argv.file) IN
      /\ Invoked \subseteq {ProcessorOf(validation.fileType)}
      /\ validation.isValid /\ cliPc = "done" =>
           Invoked = {ProcessorOf(validation.fileType)}
      /\ ~validation.isValid => Invoked = {} /\ ~Wrote

C19_Witness ==
  /\ command = "process"
  /\ cliPc = "done"
  /\ validateFileOf(argv.path, argv.file).fileType = XML
  /\ Invoked = {"XmlProcessor"}
  /\ Wrote

\* C20: for a CSV file with T data rows and a row count n >= 0,
\* getPreview(file, n) resolves to the first min(n, T) rows of the file, in
\* file order, with rowCount = min(n, T) = the length of data, and with the
\* headers processFile gives.
C20_PreviewIsFirstRows ==
  (csvCall.pc = "done" /\ csvSettled.state = "resolved" /\ csvCall.rows >= 0) =>
    LET full == csvProcessFile(csvCall.filePath, csvCall.file)
        T == Len(full.data)
        n == csvCall.rows
        m == IF n <= T THEN n ELSE T
    IN /\ Len(csvSettled.data) = m
       /\ \A i \in 1..m : csvSettled.data[i] = full.data[i]
       /\ csvSettled.rowCount = m
       /\ csvSettled.headers = full.headers

C20_Witness ==
  /\ csvCall.pc = "done"
  /\ csvSettled.state = "resolved"
  /\ csvCall.rows = 3
  /\ Len(csvProcessFile(csvCall.filePath, csvCall.file).data) = 5
  /\ Len(csvSettled.data) = 3
  /\ csvSettled.data[3][Bytes("v")] = Bytes("3")

\* the lines of a sample that are not blank, in order
nonBlankLines(content) ==
  SelectSeq(splitLines(content), LAMBDA line : Len(trim(line)) # 0)

\* the CSV content score over the first 10 lines that are not blank: 1 if
\* at least half of them hold a separator, 0.5 if fewer but at least one
csvScoreOfNonBlankLines(content) ==
  LET lines == sliceFirst(nonBlankLines(content), 10)
      k == csvIndicatorCount(lines)
  IN IF k > 0 /\ 2 * k >= Len(lines) THEN 10
     ELSE IF k > 0 THEN 5
     ELSE 0

\* a call has scored a sample that is neither XML nor Excel by content
CsvCheckRan ==
  /\ Scored
  /\ Len(contentSample) > 0
  /\ scoreByContent(contentSample).xml = 0
  /\ scoreByContent(contentSample).excel = 0

\* C22: when neither the XML nor the Excel check scored, the CSV content
\* score is taken over the first 10 non-blank lines of the sample: 1 if at
\* least half of them hold a comma, semicolon, tab or pipe, 0.5 if fewer but
\* at least one do, 0 otherwise; blank lines count on neither side of the
\* ratio.
C22_CsvScoreOverNonBlankLines ==
  CsvCheckRan =>
    scoreByContent(contentSample).csv = csvScoreOfNonBlankLines(contentSample)

\* the bytes begin with the ZIP magic 50 4B or the OLE magic D0 CF 11 E0
BeginsWithExcelMagic(data) ==
  \/ Len(data) >= 2 /\ data[1] = 80 /\ data[2] = 75
  \/ Len(data) >= 4 /\ data[1] = 208 /\ data[2] = 207 /\ data[3] = 17 /\ data[4] = 224

\* a call has scored the sample of a file of at least 8 bytes that no other
\* process changed during the call
ScoredFileOfEightBytes ==
  /\ Scored
  /\ ~touched
  /\ failed = <<>>
  /\ file0.kind = "file"
  /\ file0.size >= 8

\* C23: for a file of at least 8 bytes the Excel content score is 1 if the
\* bytes of the file begin with 50 4B or with D0 CF 11 E0, and 0 otherwise.
C23_ExcelMagicOnRawBytes ==
  ScoredFileOfEightBytes =>
    scoreByContent(contentSample).excel =
      IF BeginsWithExcelMagic(file0.data) THEN 10 ELSE 0

\* the dot-separated paths of the elements of a parsed document, at every
\* nesting depth; "$" holds attributes and "_" text, neither is an element
RECURSIVE allElementPaths(_, _)
allElementPaths(data, path) ==
  IF data.type # "object" THEN {}
  ELSE UNION { LET key == data.entries[i].key
                   currentPath == IF path # "" THEN path \o "." \o key ELSE key
               IN {currentPath} \cup allElementPaths(data.entries[i].value, currentPath) :
               i \in {j \in 1..Len(data.entries) : data.entries[j].key \notin {"$", "_"}} }

\* a getElementsPaths call has resolved
PathsReturned ==
  /\ xmlCall.method = "getElementsPaths"
  /\ xmlCall.pc = "done"
  /\ xmlSettled.state = "resolved"

\* C21: the list getElementsPaths resolves to holds the path of every element
\* of the document, whatever its nesting depth.
C21_AllElementPaths ==
  PathsReturned =>
    \A path \in allElementPaths(xmlCall.file.data, "") :
      \E i \in 1..Len(xmlSettled.paths) : xmlSettled.paths[i] = path

\* the number of components of a ScoreTriple that are not 0
NonZeroComponents(t) == Cardinality({type \in FileType : t[type] # 0})

\* a direct detectFileType call has returned after scoring its sample
SampleScored == Scored /\ failed = <<>>

\* C24: the content score of every sample has at most one component that
\* is not 0: the CSV component is 0 unless the XML and the Excel component
\* both are, no sample scores for XML and Excel together, and the empty
\* sample scores nothing.
C24_ContentScoreExclusive ==
  Scored =>
    LET c == scoreByContent(contentSample) IN
      /\ NonZeroComponents(c) <= 1
      /\ c.csv # 0 => c.xml = 0 /\ c.excel = 0
      /\ ~(c.xml # 0 /\ c.excel # 0)
      /\ contentSample = <<>> => c = NoScore

\* an XML sample that holds a comma: the XML check scored, the CSV check
\* was not made
C24_Witness ==
  /\ SampleScored
  /\ contentSample = Bytes("<r>a,b</r>")
  /\ scoreByContent(contentSample) = [csv |-> 0, excel |-> 0, xml |-> 10]
  /\ csvContentScore(contentSample) = 10

\* the name of a type as the specific reasons print it
TypeName(type) ==
  IF type = CSV THEN "CSV" ELSE IF type = EXCEL THEN "EXCEL" ELSE "XML"

\* the generic reason of a type
GenericReason(type) ==
  IF type = CSV THEN "CSV indicators found"
  ELSE IF type = EXCEL THEN "Excel indicators found"
  ELSE "XML indicators found"

\* a direct detectFileType call has returned a type
TypeDetected == DetectReturned /\ detection.detectedType # NULL

\* C25: whenever a type is detected, the reasons are the sample-failure
\* reasons, then the generic "indicators found" reason of the type, then
\* "File extension matches T", "File content matches T format" and "Filename
\* suggests T format" in this order, each present exactly when its scorer
\* gave the detected type a positive score, and at least one of them present.
C25_ReasonsInOrder ==
  TypeDetected =>
    LET type == detection.detectedType
        e == scoreByExtension(extensionOf(filePath))[type] > 0
        c == scoreByContent(contentSample)[type] > 0
        f == scoreByFilename(fileNameOf(filePath))[type] > 0
        n == SampleFailureReasons
        reasons == detection.reasons
        at(k) == n + 1 + k
        afterExtension == IF e THEN 1 ELSE 0
        afterContent == afterExtension + (IF c THEN 1 ELSE 0)
        afterFilename == afterContent + (IF f THEN 1 ELSE 0)
    IN /\ Len(reasons) = n + 1 + afterFilename
       /\ \A i \in 1..n : startsWith(reasons[i], "Content analysis failed: ")
       /\ reasons[n + 1] = GenericReason(type)
       /\ e => reasons[at(afterExtension)] = "File extension matches " \o TypeName(type)
       /\ c => reasons[at(afterContent)] =
                 "File content matches " \o TypeName(type) \o " format"
       /\ f => reasons[at(afterFilename)] =
                 "Filename suggests " \o TypeName(type) \o " format"
       /\ e \/ c \/ f

\* all four reasons, after the three scorers gave CSV a positive score
C25_Witness ==
  /\ TypeDetected
  /\ detection.reasons =
       << "CSV indicators found", "File extension matches CSV",
          "File content matches CSV format", "Filename suggests CSV format" >>

\* C26: no combined score exceeds 2.3, the extension and the content scorer
\* giving at most 1 and the filename scorer at most 0.3; every confidence
\* detectFileType returns is at most 2.3 / 3, and where the scores were
\* combined it is the largest combined score over 3, the cap at 1 unused.
C26_ScoreAtMostTwoPointThree ==
  /\ DetectReturned => detection.confidence30 <= 23
  /\ Scored =>
       /\ \A type \in FileType :
            /\ scoreByExtension(extensionOf(filePath))[type] <= 10
            /\ scoreByContent(contentSample)[type] <= 10
            /\ scoreByFilename(fileNameOf(filePath))[type] <= 3
            /\ Combined[type] <= 23
       /\ detection.confidence30 = Largest({Combined[type] : type \in FileType})
       /\ Largest({Combined[type] : type \in FileType}) < 30

\* the three scorers all give the detected type their highest score
C26_Witness ==
  /\ Scored
  /\ detection.detectedType = XML
  /\ scoreByExtension(extensionOf(filePath)).xml = 10
  /\ scoreByContent(contentSample).xml = 10
  /\ scoreByFilename(fileNameOf(filePath)).xml = 3
  /\ detection.confidence30 = 23

\* the keywords scoreByFilename looks for, by type
FilenameKeywords(type) ==
  IF type = CSV THEN {"csv", "data", "export"}
  ELSE IF type = EXCEL THEN {"xlsx", "xls", "spreadsheet", "workbook"}
  ELSE {"xml", "config", "feed", "rss"}

\* the filename scores of the call: of the base name as the code takes it, and
\* of the base name without its extension
FilenameScore == scoreByFilename(fileNameOf(filePath))
StemScore == scoreByFilenameOfStem(fileNameOf(filePath))

\* C27 as stated: the filename score is the same whether or not the
\* extension is part of the base name.
C27_Original == DetectReturned => FilenameScore = StemScore

\* C27: the filename score is computed from the lower-cased base name with
\* its extension: each type gets 0.3 exactly when that name holds one of its
\* keywords, independently of the other types.  It is never below the score
\* of the name without its extension, and is above it where only the
\* extension supplies a keyword, as in "report.csv".
C27_FilenameScoreOfFullName ==
  DetectReturned =>
    /\ \A type \in FileType :
         /\ FilenameScore[type] \in {0, 3}
         /\ FilenameScore[type] = 3 <=>
              \E k \in FilenameKeywords(type) : includes(fileNameOf(filePath), k)
         /\ StemScore[type] <= FilenameScore[type]
    /\ fileNameOf(filePath) = "report.csv" =>
         FilenameScore.csv = 3 /\ StemScore.csv = 0

\* a call on "report.csv": the keyword "csv" is in the extension alone
C27_Witness ==
  /\ DetectReturned
  /\ filePath = "report.csv"
  /\ FilenameScore = [csv |-> 3, excel |-> 0, xml |-> 0]
  /\ StemScore = NoScore

\* C28: a file handle opened by detectFileType is open only between its
\* open and its close: it is closed when the call returns, also when the
\* read has failed, and no handle is open between calls, whatever calls of
\* detectFileType and validateFile were made before.
C28_HandleClosedOnReturn ==
  /\ fd # Closed => pc \in {"d_read", "d_close"}
  /\ pc \in {"idle", "done"} => fd = Closed

\* a call whose read failed on the opened file has returned
C28_Witness ==
  /\ pc = "done"
  /\ outcome = "returned"
  /\ Has(failed, "d_read")
  /\ fd = Closed

\* the processSheet calls made so far that named a sheet
NamedSheetCalls ==
  {t \in 1..Len(tasks) : tasks[t].method = "processSheet" /\ Truthy(tasks[t].sheetName)}

\* C29: every processSheet call on one ExcelProcessor, started while other
\* calls are at their await or after they have completed, settles with the
\* rows and the sheet of the sheet named in its own call, or with the error
\* that this sheet or the file was not found, in every interleaving.
C29_OwnSheetReturned ==
  \A t \in NamedSheetCalls :
    LET own == tasks[t].sheetName
        settled == tasks[t].settled
    IN IF settled.ok
       THEN settled.sheet = own /\ settled.data = sheetToJson(own)
       ELSE startsWith(settled.error, "Excel processing error: Sheet ") =>
              settled.error = "Excel processing error: Sheet \"" \o own \o "\" not found"

\* two calls naming different sheets, the second started while the first
\* was at its await, have both completed with their own sheet
C29_Witness ==
  /\ Len(tasks) = 2
  /\ NamedSheetCalls = {1, 2}
  /\ tasks[1].pc = "done" /\ tasks[2].pc = "done"
  /\ tasks[1].sheetName = "Sheet1" /\ tasks[2].sheetName = "Sheet2"
  /\ tasks[2].originalSheetName = "Sheet1"
  /\ tasks[1].settled.ok /\ tasks[1].settled.sheet = "Sheet1"
  /\ tasks[2].settled.ok /\ tasks[2].settled.sheet = "Sheet2"

\* the commands that convert one file with the processor of its format
ConvertCommands == {"convert-csv", "convert-excel", "convert-xml"}

\* the validate step of the command running would find its input valid
InputValid ==
  IF command = "convert-csv" THEN validateCSVIsValid(argv.file)
  ELSE IF command = "convert-excel" THEN validateExcel(argv.path, argv.workbook).isValid
  ELSE validateXmlIsValid(argv.file, argv.parses)

\* what a command does with the content of its input
Works == {"preview", "convert", "write", "print"}

\* C30: in convert-csv, convert-excel and convert-xml the validate step of
\* the processor comes before every preview, conversion and output; when it
\* finds the input invalid the command has, once ended, printed the errors
\* and made no preview, no conversion and no output.
C30_ValidateFirst ==
  command \in ConvertCommands =>
    /\ \A i \in 1..Len(events) :
         events[i].kind \in Works =>
           \E j \in 1..(i - 1) :
             events[j].kind = "validate" /\ events[j].processor = events[i].processor
    /\ ~InputValid =>
         /\ \A i \in 1..Len(events) : events[i].kind \notin Works
         /\ cliPc = "done" =>
              /\ Len(events) = 2
              /\ events[1].kind = "validate"
              /\ events[2].kind = "error"

\* convert-csv has ended on a file of blank lines, which processFile would
\* parse: validateCSV found it invalid and nothing else was done
C30_Witness ==
  /\ command = "convert-csv"
  /\ cliPc = "done"
  /\ argv.file = RegularFile(Bytes("\n \n"), TRUE)
  /\ csvProcessFile(argv.path, argv.file).state = "resolved"
  /\ ~InputValid
  /\ Len(events) = 2

====
